---- MODULE Spec2Model ----
(***************************************************************************)
(* YouTube Audio Mode content script (src/PRIVACY_POLICY.md, lines 83 on): *)
(* the quality-operation coordinator, the quality enforcer, the mode       *)
(* reconciler and the navigation observer, as one event-driven state       *)
(* machine.  JavaScript is single threaded: every action below is one      *)
(* event-loop task (a timer callback, a storage callback, a DOM event or   *)
(* a message) run to completion.  A pending timer or asynchronous callback *)
(* is an element of timers and may run whenever it is pending: the model   *)
(* does not order callbacks by deadline, so it allows every order the      *)
(* browser can produce (load, throttling of background tabs, storage       *)
(* latency) and some it cannot.  Each timer keeps the delay it was set     *)
(* with, in units of 100 ms.                                               *)
(***************************************************************************)
EXTENDS Integers, FiniteSets, Sequences, Bags, TLC

\* ---------------------------------------------------------------- bounds
MaxNav == 1
MaxModeChanges == 1
MaxOpId == 3
MaxDrift == 1
MaxTicks == 2
MaxSelections == 3
MaxRuleEdits == 1

\* ------------------------------------------------------ program constants
NULL == "null"

\* QUALITY (TARGET, FALLBACK, RESTORE)
QUALITY_TARGET == "tiny"
QUALITY_FALLBACK == "small"
QUALITY_RESTORE == "hd720"

\* setTimeout delays of the source, in units of 100 ms
RETRY_DELAY == 10
QUALITY_SET_DELAY == 10
FALLBACK_TIMEOUT == 30
DEBOUNCE_DEFAULT == 3
REQUEUE_DELAY == 5
REQUEUE_DEBOUNCE == 1
VERIFY_DELAY == 5
SET_RETRY_DELAY == 10
RESTORE_RETRY_DELAY == 1
RESTORE_ATTEMPTS == 3
PREFERRED_RETRY_DELAY == 5
CLICK_DELAY_MENU == 3
CLICK_DELAY_SELECT == 3
CLICK_DELAY_CLOSE == 1
CLICK_DELAY_FINAL == 2
NAV_DEBOUNCE == 6
NAV_FINISH_DELAY == 3
LISTENER_RETRY_DELAY == 5
LISTENER_PAGE_RETRY_DELAY == 10
FILTER_MAX_RETRIES == 5
FILTER_RETRY_DELAY == 6
FILTER_FIRST_DELAY == 5
FILTER_NEXT_DELAY == 4
PAGE_DATA_DELAY == 2

\* Quality tiers of the host, lowest first; "auto" lets the host choose.
Tiers == <<"tiny", "small", "medium", "large", "hd720", "hd1080", "hd1440", "hd2160">>
TierSet == {Tiers[i] : i \in 1..Len(Tiers)}
TierIndex(q) == CHOOSE i \in 1..Len(Tiers) : Tiers[i] = q

\* qualityToText of restoreQualityInternal: the menu label of a quality code
\* (undefined, written NULL, for a code the table does not hold).
qualityToText(q) ==
    CASE q = "hd2160" -> "2160p"
      [] q = "hd1440" -> "1440p"
      [] q = "hd1080" -> "1080p"
      [] q = "hd720" -> "720p"
      [] q = "large" -> "480p"
      [] q = "medium" -> "360p"
      [] q = "small" -> "240p"
      [] q = "tiny" -> "144p"
      [] q = "auto" -> "Auto"
      [] OTHER -> NULL

\* The quality a menu label selects when clicked.
TextToQuality(txt) ==
    CASE txt = "2160p" -> "hd2160"
      [] txt = "1440p" -> "hd1440"
      [] txt = "1080p" -> "hd1080"
      [] txt = "720p" -> "hd720"
      [] txt = "480p" -> "large"
      [] txt = "360p" -> "medium"
      [] txt = "240p" -> "small"
      [] txt = "144p" -> "tiny"
      [] OTHER -> "auto"

OpTypes == {"set", "restore", "preferred"}
Modes == {"always", "off", "filtered"}
Pages == {"A", "B", "home"}
VideoPages == {"A", "B"}

\* ------------------------------------------------------------ the whitelist
\* Titles and keywords are strings over a small alphabet with two cases of
\* one letter; a string is the sequence of its characters.
MaxTitleLen == 2
MaxKeywordLen == 1
MaxKeywords == 1

Chars == {"a", "A", "b"}

Strings(n) == UNION {[1..k -> Chars] : k \in 0..n}

\* String.prototype.toLowerCase
LowerChar(c) == IF c = "A" THEN "a" ELSE c
toLowerCase(str) == [i \in 1..Len(str) |-> LowerChar(str[i])]

\* String.prototype.includes: pattern occurs in str as a contiguous run
includes(str, pattern) ==
    \E i \in 0..(Len(str) - Len(pattern)) :
        \A j \in 1..Len(pattern) : str[i + j] = pattern[j]

\* chrome.storage's filterRules: present says the key is stored, whitelist
\* that it has a whitelist object; channels holds the ids of the whitelisted
\* channels and keywords the whitelisted keywords (a list that is missing is
\* the empty list).
NoRules == [present |-> FALSE, whitelist |-> FALSE, channels |-> {}, keywords |-> {}]

Rules(channels, keywords) ==
    [present |-> TRUE, whitelist |-> TRUE, channels |-> channels, keywords |-> keywords]

\* What getCurrentVideoInfo returns: present is false for its null.
NoVideoInfo == [present |-> FALSE, videoId |-> NULL, videoTitle |-> <<>>, channelId |-> NULL]

\* checkWhitelist as it would be were the title compared as it is written.
checkWhitelistCaseSensitive(videoInfo, rules) ==
    IF ~videoInfo.present \/ ~rules.present THEN FALSE
    ELSE IF ~rules.whitelist THEN FALSE
    ELSE IF videoInfo.channelId # NULL /\ rules.channels # {}
            /\ \E c \in rules.channels : c = videoInfo.channelId
         THEN TRUE
    ELSE IF videoInfo.videoTitle # <<>> /\ rules.keywords # {}
         THEN \E kw \in rules.keywords :
                  includes(videoInfo.videoTitle, toLowerCase(kw))
         ELSE FALSE

\* checkWhitelist(videoInfo, filterRules)
checkWhitelist(videoInfo, rules) ==
    IF ~videoInfo.present \/ ~rules.present THEN FALSE
    ELSE IF ~rules.whitelist THEN FALSE
    ELSE IF videoInfo.channelId # NULL /\ rules.channels # {}
            /\ \E c \in rules.channels : c = videoInfo.channelId
         THEN TRUE
    ELSE IF videoInfo.videoTitle # <<>> /\ rules.keywords # {}
         THEN LET titleLower == toLowerCase(videoInfo.videoTitle)
              IN  \E kw \in rules.keywords : includes(titleLower, toLowerCase(kw))
         ELSE FALSE

\* The title and the channel the watch page of each video shows once its
\* page data has arrived, and what the selectors find before that.
NoPageInfo == [videoTitle |-> <<>>, channelId |-> NULL]

PageInfo(p) ==
    CASE p = "A" -> [videoTitle |-> <<"a">>, channelId |-> "UC1"]
      [] p = "B" -> [videoTitle |-> <<"b">>, channelId |-> "UC2"]
      [] OTHER -> NoPageInfo

VARIABLES
    \* ---- engine state (module-level lets of the content script)
    audioModeEnabled,
    currentModeType,
    savedQualityBeforeAudioMode,
    qualityOperationInProgress,
    qualityOperationTimeout,
    lastQualityOperationType,
    currentQualityOperationId,
    lastAppliedVideoId,
    lastUrl,
    lastCheckedVideoId,
    navigationDebounceTimer,
    usageTrackingInterval,
    qualityCheckCounter,
    cachedVideoElement,
    currentVideoElement,
    audioModeOverlay,
    playListeners,
    timers,
    \* ---- host page and browser
    url,
    playerPresent,
    videoPresent,
    hostQuality,
    availableLevels,
    apiWorks,
    hostUI,
    attempted,
    stylesHidden,
    videoHidden,
    preferredQuality,
    contextValid,
    pendingEvents,
    videoPlaying,
    storedMode,
    filterRules,
    domInfo,
    \* ---- bookkeeping of the environment bounds and of the observed history
    navCount,
    modeChanges,
    driftCount,
    requests,
    toggles,
    hist,
    \* ---- chrome.storage.local: today's entries of statsLogs and activeLogs
    usageLogs,
    \* ---- the badge text of the extension's action (NULL: never set)
    badgeText

vars == <<audioModeEnabled, currentModeType, savedQualityBeforeAudioMode,
          qualityOperationInProgress, qualityOperationTimeout,
          lastQualityOperationType, currentQualityOperationId,
          lastAppliedVideoId, lastUrl, lastCheckedVideoId,
          navigationDebounceTimer, usageTrackingInterval, qualityCheckCounter,
          cachedVideoElement, currentVideoElement, audioModeOverlay,
          playListeners, timers,
          url, playerPresent, videoPresent, hostQuality, availableLevels,
          apiWorks, hostUI, attempted, stylesHidden, videoHidden,
          preferredQuality, contextValid, pendingEvents, videoPlaying, storedMode,
          filterRules, domInfo,
          navCount, modeChanges, driftCount, requests, toggles, hist, usageLogs,
          badgeText>>

\* The state as one record, so that a handler is a function from state to
\* state and a handler that calls another composes the two.
Cur ==
    [audioModeEnabled |-> audioModeEnabled,
     currentModeType |-> currentModeType,
     savedQualityBeforeAudioMode |-> savedQualityBeforeAudioMode,
     qualityOperationInProgress |-> qualityOperationInProgress,
     qualityOperationTimeout |-> qualityOperationTimeout,
     lastQualityOperationType |-> lastQualityOperationType,
     currentQualityOperationId |-> currentQualityOperationId,
     lastAppliedVideoId |-> lastAppliedVideoId,
     lastUrl |-> lastUrl,
     lastCheckedVideoId |-> lastCheckedVideoId,
     navigationDebounceTimer |-> navigationDebounceTimer,
     usageTrackingInterval |-> usageTrackingInterval,
     qualityCheckCounter |-> qualityCheckCounter,
     cachedVideoElement |-> cachedVideoElement,
     currentVideoElement |-> currentVideoElement,
     audioModeOverlay |-> audioModeOverlay,
     playListeners |-> playListeners,
     timers |-> timers,
     url |-> url,
     playerPresent |-> playerPresent,
     videoPresent |-> videoPresent,
     hostQuality |-> hostQuality,
     availableLevels |-> availableLevels,
     apiWorks |-> apiWorks,
     hostUI |-> hostUI,
     attempted |-> attempted,
     stylesHidden |-> stylesHidden,
     videoHidden |-> videoHidden,
     preferredQuality |-> preferredQuality,
     contextValid |-> contextValid,
     pendingEvents |-> pendingEvents,
     videoPlaying |-> videoPlaying,
     storedMode |-> storedMode,
     filterRules |-> filterRules,
     domInfo |-> domInfo,
     requests |-> requests,
     navCount |-> navCount,
     modeChanges |-> modeChanges,
     driftCount |-> driftCount,
     toggles |-> toggles,
     usageLogs |-> usageLogs,
     badgeText |-> badgeText,
     hist |-> hist]

Commit(result) ==
    \E s \in {result} :
        /\ s.currentQualityOperationId <= MaxOpId
        /\ audioModeEnabled' = s.audioModeEnabled
        /\ currentModeType' = s.currentModeType
        /\ savedQualityBeforeAudioMode' = s.savedQualityBeforeAudioMode
        /\ qualityOperationInProgress' = s.qualityOperationInProgress
        /\ qualityOperationTimeout' = s.qualityOperationTimeout
        /\ lastQualityOperationType' = s.lastQualityOperationType
        /\ currentQualityOperationId' = s.currentQualityOperationId
        /\ lastAppliedVideoId' = s.lastAppliedVideoId
        /\ lastUrl' = s.lastUrl
        /\ lastCheckedVideoId' = s.lastCheckedVideoId
        /\ navigationDebounceTimer' = s.navigationDebounceTimer
        /\ usageTrackingInterval' = s.usageTrackingInterval
        /\ qualityCheckCounter' = s.qualityCheckCounter
        /\ cachedVideoElement' = s.cachedVideoElement
        /\ currentVideoElement' = s.currentVideoElement
        /\ audioModeOverlay' = s.audioModeOverlay
        /\ playListeners' = s.playListeners
        /\ timers' = s.timers
        /\ url' = s.url
        /\ playerPresent' = s.playerPresent
        /\ videoPresent' = s.videoPresent
        /\ hostQuality' = s.hostQuality
        /\ availableLevels' = s.availableLevels
        /\ apiWorks' = s.apiWorks
        /\ hostUI' = s.hostUI
        /\ attempted' = s.attempted
        /\ stylesHidden' = s.stylesHidden
        /\ videoHidden' = s.videoHidden
        /\ preferredQuality' = s.preferredQuality
        /\ contextValid' = s.contextValid
        /\ pendingEvents' = s.pendingEvents
        /\ videoPlaying' = s.videoPlaying
        /\ storedMode' = s.storedMode
        /\ filterRules' = s.filterRules
        /\ domInfo' = s.domInfo
        /\ requests' = s.requests
        /\ navCount' = s.navCount
        /\ modeChanges' = s.modeChanges
        /\ driftCount' = s.driftCount
        /\ toggles' = s.toggles
        /\ usageLogs' = s.usageLogs
        /\ badgeText' = s.badgeText
        /\ hist' = s.hist


\* ------------------------------------------------------------------ timers
\* A pending callback: setTimeout(..) or the callback of an asynchronous
\* call.  timers is the bag of them (two equal callbacks may be pending).
\* handle names the variable that keeps the id setTimeout returned
\* (qualityOperationTimeout, navigationDebounceTimer), NULL when the id is
\* dropped; delay is the delay asked for.  The other fields are what the
\* closure captured: the operation type, the operation id of a menu
\* sequence, whether onComplete is the coordinator's cleanup (cb), the
\* attempts left (the retry count of a filtered-mode evaluation), the menu
\* label, the target quality and the filter rules read.  origin and nav
\* record, for the properties, who started the callback chain and whether a
\* navigation was detected while a menu sequence was running.
ClickKinds == {"clickMenu", "clickSelect", "clickClose", "clickFinal"}

\* Today's entries of statsLogs and activeLogs before the first tick of the
\* day.
NoLogs == [statsLogs |-> 0, activeLogs |-> 0]

Timer(kind, delay) ==
    [kind |-> kind, delay |-> delay, handle |-> NULL, type |-> NULL, opId |-> 0,
     cb |-> FALSE, attempts |-> 0, text |-> NULL, target |-> NULL,
     origin |-> NULL, nav |-> FALSE, rules |-> NoRules, logs |-> NoLogs]

Pending(s) == BagToSet(s.timers)

setTimeout(s, t) == [s EXCEPT !.timers = @ (+) SetToBag({t})]

\* n equal timers at once
AddTimers(s, t, n) ==
    IF n = 0 THEN s ELSE [s EXCEPT !.timers = @ (+) [x \in {t} |-> n]]

\* setTimeout whose id is stored in the variable named h: the variable now
\* refers to the new timer and to no other.
Unref(b, h) ==
    LET held == {t \in BagToSet(b) : t.handle = h}
        strip(t) == [t EXCEPT !.handle = NULL]
    IN  IF held = {} THEN b
        ELSE LET t == CHOOSE x \in held : TRUE
             IN  (b (-) SetToBag({t})) (+) SetToBag({strip(t)})

setTimeoutKeep(s, t, h) ==
    [s EXCEPT !.timers = Unref(@, h) (+) SetToBag({[t EXCEPT !.handle = h]})]

\* clearTimeout of the id kept in the variable named h (nothing happens when
\* that timer has fired already).
clearTimeout(s, h) ==
    [s EXCEPT !.timers = @ (-) SetToBag({t \in BagToSet(@) : t.handle = h})]

\* The state in which callback t has just been taken off the timer queue.
Fired(s, t) == [s EXCEPT !.timers = @ (-) SetToBag({t})]

Due(kind) == {t \in BagToSet(timers) : t.kind = kind}

\* ------------------------------------------------------------- host player
\* document.getElementById('movie_player') is present
HasPlayer(s) == s.playerPresent

\* getVideoElement: the cached element, or a fresh query for it
\* getVideoElement as it would be did the lookup mark the attempt as well.
getVideoElementMarksAttempt(s) ==
    [s EXCEPT !.cachedVideoElement = IF @ THEN @ ELSE s.videoPresent,
              !.attempted = TRUE]

getVideoElement(s) ==
    [s EXCEPT !.cachedVideoElement = IF @ THEN @ ELSE s.videoPresent]

\* clearVideoCache
clearVideoCache(s) == [s EXCEPT !.cachedVideoElement = FALSE]

\* resetQualityAttemptFlag: delete player.__audioModeQualityAttempted
resetQualityAttemptFlag(s) ==
    IF HasPlayer(s) THEN [s EXCEPT !.attempted = FALSE] ELSE s

\* The tier the host plays when the quality is left to it ("auto").
HostDefault(s) ==
    IF "hd720" \in s.availableLevels \/ s.availableLevels \cap TierSet = {}
    THEN "hd720"
    ELSE Tiers[CHOOSE i \in 1..Len(Tiers) :
                  /\ Tiers[i] \in s.availableLevels
                  /\ \A j \in (i + 1)..Len(Tiers) : Tiers[j] \notin s.availableLevels]

\* A programmatic setter called with q, on a host whose control API works.
\* getPlaybackQuality reports a tier, never "auto".
Played(s, q) == IF q \in TierSet THEN q ELSE HostDefault(s)

\* A programmatic setter of the host (setPlaybackQuality, ...Range,
\* setInternalQuality, setPreferredQuality): best effort, it takes effect only
\* on a host whose control API works and only for a level the host offers.
HostSet(s, q) ==
    IF s.apiWorks /\ (q = "auto" \/ q \in s.availableLevels)
    THEN [s EXCEPT !.hostQuality = Played(s, q)]
    ELSE s

\* player.getPlaybackQuality()
getPlaybackQuality(s) == s.hostQuality

\* --------------------------------------------------------- the coordinator
\* The cleanup closure of executeQualityOperation, or a null onComplete.
Complete(s, cb) ==
    IF cb
    THEN [s EXCEPT !.qualityOperationInProgress = FALSE,
                   !.lastQualityOperationType = NULL]
    ELSE s

\* The history of the coordinator is kept where its callers' requests are
\* counted (the specification of the coordinator on its own).
Observed(s) == s.requests > 0

\* The history of the reconciler is kept in the specifications of the
\* reconciler (hist.recon).
Watched(s) == s.hist.recon

\* History kept for the properties: the most recent request a caller made,
\* and the run of same-type requests being coalesced.
NoteRequest(s, type, origin) ==
    IF origin # "caller" \/ ~Observed(s) THEN s
    ELSE [s EXCEPT
            !.hist.lastRequested = type,
            !.hist.dropped = @ \/ (s.qualityOperationInProgress
                                    /\ s.lastQualityOperationType = type),
            !.hist.burst =
                IF \/ s.qualityOperationInProgress
                   \/ (\E t \in Pending(s) : t.kind = "requeue")
                   \/ (\E t \in Pending(s) : t.kind = "debounce" /\ t.type # type)
                THEN NULL
                ELSE IF (\E t \in Pending(s) : t.kind = "debounce")
                     THEN s.hist.burst
                     ELSE type,
            !.hist.burstExecs =
                IF (\E t \in Pending(s) : t.kind = "debounce") THEN @ ELSE 0,
            !.hist.burstLen =
                IF (\E t \in Pending(s) : t.kind = "debounce")
                THEN (IF @ < 2 THEN @ + 1 ELSE @)
                ELSE 1]

\* requestQualityOperation without its clearTimeout: the earlier debounce
\* timer stays pending.
requestQualityOperationKeepsTimer(s, type, debounce, origin) ==
    LET s0 == NoteRequest(s, type, origin)
    IN  IF s0.qualityOperationInProgress /\ s0.lastQualityOperationType = type
        THEN s0
        ELSE [setTimeoutKeep(s0, [Timer("debounce", debounce) EXCEPT
                                     !.type = type, !.origin = origin],
                             "qualityOperationTimeout")
                 EXCEPT !.qualityOperationTimeout = TRUE]

\* requestQualityOperation without its test of the operation in flight.
requestQualityOperationNoSkip(s, type, debounce, origin) ==
    LET s0 == NoteRequest(s, type, origin)
        s1 == IF s0.qualityOperationTimeout
              THEN [clearTimeout(s0, "qualityOperationTimeout")
                        EXCEPT !.qualityOperationTimeout = FALSE]
              ELSE s0
    IN  [setTimeoutKeep(s1, [Timer("debounce", debounce) EXCEPT
                                !.type = type, !.origin = origin],
                        "qualityOperationTimeout")
            EXCEPT !.qualityOperationTimeout = TRUE]

\* requestQualityOperation(type, debounceMs)
requestQualityOperationFrom(s, type, debounce, origin) ==
    LET s0 == NoteRequest(s, type, origin)
        s1 == IF s0.qualityOperationTimeout
              THEN [clearTimeout(s0, "qualityOperationTimeout")
                        EXCEPT !.qualityOperationTimeout = FALSE]
              ELSE s0
    IN  IF s1.qualityOperationInProgress /\ s1.lastQualityOperationType = type
        THEN s1
        ELSE [setTimeoutKeep(s1, [Timer("debounce", debounce) EXCEPT
                                     !.type = type, !.origin = origin,
                                     !.nav = s.hist.carry],
                             "qualityOperationTimeout")
                 EXCEPT !.qualityOperationTimeout = TRUE]

requestQualityOperation(s, type) ==
    requestQualityOperationFrom(s, type, DEBOUNCE_DEFAULT, "caller")

\* setLowestQuality, restoreQuality, applyPreferredQuality (public API)
setLowestQuality(s) ==
    requestQualityOperation([s EXCEPT !.hist.navSet = @ \/ Watched(s),
                                      !.hist.setDue = FALSE], "set")
restoreQuality(s) ==
    requestQualityOperation([s EXCEPT !.hist.navRestore = @ \/ Watched(s)], "restore")
applyPreferredQuality(s) == requestQualityOperation(s, "preferred")

\* History kept for the properties: the requests that wait in the re-queue
\* delay when cancelPendingQualityOperations runs are marked, and the mark
\* follows the request through its debounce and any further re-queue.
Followed(s) == s.hist.follow

NoteCancel(s) ==
    IF ~Followed(s) THEN s
    ELSE LET b == s.timers
             S == BagToSet(b)
             f(t) == IF t.kind = "requeue" THEN [t EXCEPT !.nav = TRUE] ELSE t
             count(u) == (IF u \in S THEN b[u] ELSE 0)
                         + (IF u.kind = "requeue" /\ u.nav /\ [u EXCEPT !.nav = FALSE] \in S
                            THEN b[[u EXCEPT !.nav = FALSE]] ELSE 0)
         IN  [s EXCEPT !.timers = [u \in {f(t) : t \in S} |-> count(u)]]

\* cancelPendingQualityOperations: only the debounce timer is cancelled, an
\* operation in flight is left to complete.
cancelPendingQualityOperations(s0) ==
    LET s == NoteCancel(s0) IN
    IF s.qualityOperationTimeout
    THEN [clearTimeout(s, "qualityOperationTimeout") EXCEPT
              !.qualityOperationTimeout = FALSE,
              !.hist.lastRequested = NULL,
              !.hist.burst = NULL]
    ELSE s

\* resetSettingsUIStyles
resetSettingsUIStyles(s) == [s EXCEPT !.stylesHidden = FALSE]

\* clickQualitySetting(video, targetText, onComplete): the first, synchronous
\* part.  The suppression styles are applied, and when the settings button
\* exists it is clicked and the next step is scheduled.
clickQualitySetting(s, text, cb, origin) ==
    LET s1 == [s EXCEPT !.currentQualityOperationId = @ + 1,
                        !.stylesHidden = TRUE,
                        !.hist.fallbacks = IF @ < 2 THEN @ + 1 ELSE @]
    IN  IF s1.hostUI # "noButton"
        THEN setTimeout(s1, [Timer("clickMenu", CLICK_DELAY_MENU) EXCEPT
                                !.opId = s1.currentQualityOperationId,
                                !.text = text, !.cb = cb, !.origin = origin])
        ELSE Complete(s1, cb)

\* forceLowestQuality(player, video, onComplete): every setter is tried with
\* 'tiny', then the result is verified after 500 ms.
forceLowestQuality(s, cb, origin) ==
    setTimeout(HostSet(s, "tiny"),
               [Timer("flqVerify", VERIFY_DELAY) EXCEPT !.cb = cb, !.origin = origin])

\* History kept for the properties: the quality the verification of a Set
\* operation read back, whether the host lists tiny, whether the attempt was
\* the first for the video, and whether it escalated to the menu sequence.
NoteVerify(s, escalated) ==
    IF ~Observed(s) THEN s
    ELSE [s EXCEPT !.hist.verified = <<getPlaybackQuality(s),
                                       "tiny" \in s.availableLevels,
                                       ~s.attempted, escalated>>]

\* The verification callback of forceLowestQuality as it would be did it
\* accept tiny only.
forceLowestQualityVerifyTinyOnly(s, t) ==
    LET currentQuality == getPlaybackQuality(s)
        isFirstAttempt == ~s.attempted
    IN  IF currentQuality # "tiny"
        THEN IF isFirstAttempt
             THEN clickQualitySetting([NoteVerify(s, TRUE) EXCEPT !.attempted = TRUE],
                                      "144p", t.cb, t.origin)
             ELSE Complete(NoteVerify(s, FALSE), t.cb)
        ELSE Complete([NoteVerify(s, FALSE) EXCEPT !.attempted = TRUE], t.cb)

\* The verification callback of forceLowestQuality.
forceLowestQualityVerify(s, t) ==
    LET currentQuality == getPlaybackQuality(s)
        isFirstAttempt == ~s.attempted
    IN  IF currentQuality # "tiny" /\ currentQuality # "small"
        THEN IF isFirstAttempt
             THEN clickQualitySetting([NoteVerify(s, TRUE) EXCEPT !.attempted = TRUE],
                                      "144p", t.cb, t.origin)
             ELSE Complete(NoteVerify(s, FALSE), t.cb)
        ELSE Complete([NoteVerify(s, FALSE) EXCEPT !.attempted = TRUE], t.cb)

\* setLowestQualityInternal(onComplete)
setLowestQualityInternal(s, cb) ==
    LET s1 == getVideoElement(s)
    IN  IF ~HasPlayer(s1) \/ ~s1.cachedVideoElement
        THEN setTimeout(s1, [Timer("setRetry", SET_RETRY_DELAY) EXCEPT !.cb = cb])
        ELSE forceLowestQuality(s1, cb, "coordinator")


\* ------------------------------------------------------------------ restore
\* The target restoreQualityInternal resolves: the session-saved quality,
\* else the stored preference, else 720p, never tiny or small; 'auto' when
\* the host lists levels and the candidate is not among them.
\* The resolution without its exclusion of tiny and small.
RestoreCandidateUnfiltered(saved, preferred) ==
    IF saved # NULL THEN saved
    ELSE IF preferred # NULL THEN preferred ELSE QUALITY_RESTORE

\* The resolution with the stored preference consulted before the session.
RestoreCandidatePreferredFirst(saved, preferred) ==
    LET t1 == preferred
        t2 == IF t1 = NULL \/ t1 = "tiny" \/ t1 = "small" THEN saved ELSE t1
    IN  IF t2 = NULL \/ t2 = "tiny" \/ t2 = "small" THEN QUALITY_RESTORE ELSE t2

RestoreCandidate(saved, preferred) ==
    LET t1 == saved
        t2 == IF t1 = NULL \/ t1 = "tiny" \/ t1 = "small" THEN preferred ELSE t1
    IN  IF t2 = NULL \/ t2 = "tiny" \/ t2 = "small" THEN QUALITY_RESTORE ELSE t2

RestoreTarget(saved, preferred, levels) ==
    LET target == RestoreCandidate(saved, preferred)
    IN  IF levels # {} /\ target \notin levels THEN "auto" ELSE target

RestoreText(saved, preferred, levels) ==
    LET target == RestoreCandidate(saved, preferred)
        uiTargetText == IF qualityToText(target) = NULL THEN "720p"
                        ELSE qualityToText(target)
    IN  IF levels # {} /\ target \notin levels THEN "Auto" ELSE uiTargetText

\* chrome.storage.sync.get(keys, callback): throws in an invalidated
\* extension context, otherwise the callback runs as a later task.
StorageGet(s, kind, cb) ==
    IF s.contextValid
    THEN setTimeout(s, [Timer(kind, 0) EXCEPT !.cb = cb])
    ELSE [s EXCEPT !.hist.uncaught = TRUE]

\* restoreQualityInternal(onComplete, attempts)
restoreQualityInternal(s, cb, attempts) ==
    LET s1 == getVideoElement(s)
    IN  IF ~HasPlayer(s1) \/ ~s1.cachedVideoElement
        THEN IF attempts > 0
             THEN setTimeout(s1, [Timer("restoreRetry", RESTORE_RETRY_DELAY) EXCEPT
                                     !.cb = cb, !.attempts = attempts - 1])
             ELSE Complete(s1, cb)
        ELSE StorageGet(s1, "restoreGet", cb)

\* The storage callback of restoreQualityInternal: resolve the target, clear
\* the session-saved quality, call the setters, schedule the verification.
restoreQualityApply(s, t) ==
    LET target == RestoreTarget(s.savedQualityBeforeAudioMode, s.preferredQuality,
                                s.availableLevels)
        text == RestoreText(s.savedQualityBeforeAudioMode, s.preferredQuality,
                            s.availableLevels)
        s1 == [s EXCEPT !.savedQualityBeforeAudioMode = NULL,
                        !.hist.restoreFrom = <<s.savedQualityBeforeAudioMode,
                                               s.preferredQuality>>]
        s2 == IF target # "auto" THEN HostSet(HostSet(s1, "auto"), target)
              ELSE HostSet(s1, "auto")
    IN  setTimeout(s2, [Timer("restoreVerify", VERIFY_DELAY) EXCEPT
                           !.cb = t.cb, !.target = target, !.text = text])

\* The verification callback of restoreQualityInternal.
restoreQualityVerify(s, t) ==
    IF t.target # "auto" /\ getPlaybackQuality(s) # t.target
    THEN clickQualitySetting(s, t.text, t.cb, "coordinator")
    ELSE Complete(s, t.cb)

\* ---------------------------------------------------------------- preferred
\* applyPreferredQualityInternal(onComplete)
applyPreferredQualityInternal(s, cb) ==
    LET s1 == getVideoElement(s)
    IN  IF ~HasPlayer(s1) \/ ~s1.cachedVideoElement
        THEN setTimeout(s1, [Timer("preferredRetry", PREFERRED_RETRY_DELAY) EXCEPT !.cb = cb])
        ELSE StorageGet(s1, "preferredGet", cb)

\* The storage callback of applyPreferredQualityInternal.
applyPreferredQualityApply(s, t) ==
    LET quality == s.preferredQuality
    IN  IF quality = NULL \/ quality = "auto"
        THEN Complete(s, t.cb)
        ELSE setTimeout(HostSet(s, quality),
                        [Timer("preferredVerify", VERIFY_DELAY) EXCEPT
                            !.cb = t.cb, !.target = quality,
                            !.text = IF qualityToText(quality) = NULL THEN "720p"
                                     ELSE qualityToText(quality)])

\* The verification callback of applyPreferredQualityInternal.
applyPreferredQualityVerify(s, t) ==
    IF getPlaybackQuality(s) # t.target
    THEN clickQualitySetting(s, t.text, t.cb, "coordinator")
    ELSE Complete(s, t.cb)

\* ---------------------------------------------------------------- execute
\* executeQualityOperation(type): an operation in flight re-queues the
\* request after 500 ms, otherwise the operation starts and holds the lock
\* until its cleanup runs.
NoteExecute(s, type) ==
    IF ~Observed(s) THEN s
    ELSE [s EXCEPT !.hist.burstExecs = IF s.hist.burst # NULL /\ @ < 2 THEN @ + 1 ELSE @]

NoteStart(s0, type) ==
    LET s == [s0 EXCEPT !.hist.staleStart = @ \/ s0.hist.carry]
        s1 == IF ~Observed(s) THEN s ELSE [s EXCEPT !.hist.lastExecuted = type]
    IN  IF Watched(s1) /\ type = "preferred"
        THEN [s1 EXCEPT !.hist.prefExecs = IF @ < 2 THEN @ + 1 ELSE @]
        ELSE s1

\* executeQualityOperation without its test of qualityOperationInProgress.
executeQualityOperationUnguarded(s0, type) ==
    LET s == NoteExecute(s0, type)
        s1 == [NoteStart(s, type) EXCEPT !.qualityOperationInProgress = TRUE,
                                         !.lastQualityOperationType = type]
    IN  CASE type = "set" -> setLowestQualityInternal(s1, TRUE)
          [] type = "restore" -> restoreQualityInternal(s1, TRUE, RESTORE_ATTEMPTS)
          [] type = "preferred" -> applyPreferredQualityInternal(s1, TRUE)

executeQualityOperation(s0, type) ==
    LET s == NoteExecute(s0, type) IN
    IF s.qualityOperationInProgress
    THEN setTimeout(s, [Timer("requeue", REQUEUE_DELAY) EXCEPT !.type = type,
                                                               !.nav = s.hist.carry])
    ELSE LET s1 == [NoteStart(s, type) EXCEPT !.qualityOperationInProgress = TRUE,
                                              !.lastQualityOperationType = type]
         IN  CASE type = "set" -> setLowestQualityInternal(s1, TRUE)
               [] type = "restore" -> restoreQualityInternal(s1, TRUE, RESTORE_ATTEMPTS)
               [] type = "preferred" -> applyPreferredQualityInternal(s1, TRUE)


\* ----------------------------------------------------------- usage tracking
\* startUsageTracking: one interval at most; a new interval starts its own
\* qualityCheckCounter at 0.
startUsageTracking(s) ==
    IF s.usageTrackingInterval THEN s
    ELSE [s EXCEPT !.usageTrackingInterval = TRUE, !.qualityCheckCounter = 0]

\* stopUsageTracking
stopUsageTracking(s) == [s EXCEPT !.usageTrackingInterval = FALSE]

\* checkAndEnforceQuality: the periodic re-enforcement
checkAndEnforceQuality(s) ==
    IF s.qualityOperationInProgress THEN s
    ELSE IF ~HasPlayer(s) \/ ~s.audioModeEnabled THEN s
    ELSE IF getPlaybackQuality(s) # QUALITY_TARGET /\ getPlaybackQuality(s) # QUALITY_FALLBACK
         THEN forceLowestQuality(getVideoElement(s), FALSE, "periodic")
         ELSE s

\* The seconds one tick adds to today's entries.
USAGE_STEP == 5

\* The usage statistics are followed in the specifications that say so in
\* their initial history; they have no effect on the rest of the engine.
Tracked(s) == s.hist.usage

\* TRACK 1 of the tick: chrome.storage.local.get reads the stored entries,
\* its callback is pending with what was read.
trackUsage(s) ==
    IF Tracked(s)
    THEN setTimeout(s, [Timer("usageGet", 0) EXCEPT !.logs = s.usageLogs])
    ELSE s

\* A variant that counts listened time on every tick and active time only
\* while the video plays.
CountedUpSwapped(logs, isPlaying) ==
    [activeLogs |-> IF isPlaying THEN logs.activeLogs + USAGE_STEP ELSE logs.activeLogs,
     statsLogs |-> logs.statsLogs + USAGE_STEP]

\* What the callback of chrome.storage.local.get writes back: the entries it
\* was given, counted up.
CountedUp(logs, isPlaying) ==
    [activeLogs |-> logs.activeLogs + USAGE_STEP,
     statsLogs |-> IF isPlaying THEN logs.statsLogs + USAGE_STEP ELSE logs.statsLogs]

\* The callback of that chrome.storage.local.get: both entries are counted
\* up and written back.  The history notes a write made while audio mode is
\* disabled.
usageLogsCallback(s, t) ==
    [s EXCEPT !.usageLogs = CountedUp(t.logs, s.cachedVideoElement /\ s.videoPlaying),
              !.hist.loggedDisabled = @ \/ ~s.audioModeEnabled]

\* The callback of the usage-tracking interval.
usageTrackingTick(s) ==
    IF ~s.contextValid THEN [s EXCEPT !.usageTrackingInterval = FALSE]
    ELSE LET s1 == getVideoElement(s)
             s2 == trackUsage(s1)
         IN  IF ~s1.audioModeEnabled \/ ~s1.cachedVideoElement THEN s1
             ELSE IF s2.qualityCheckCounter + 1 >= 2
                  THEN checkAndEnforceQuality([s2 EXCEPT !.qualityCheckCounter = 0])
                  ELSE [s2 EXCEPT !.qualityCheckCounter = @ + 1]

\* ------------------------------------------------------------ the reconciler
\* isOnVideoPage
isOnVideoPage(s) == s.url \in VideoPages

\* History kept for the properties: how often audioModeEnabled has changed
\* since the last mode selection in the popup (2 stands for more than once).
NoteFlip(s, enabled) ==
    IF Followed(s) /\ s.audioModeEnabled # enabled /\ s.hist.flips < 2
    THEN [s EXCEPT !.hist.flips = @ + 1]
    ELSE s

\* enableAudioMode, up to its await on the overlay creation.  A missing
\* video element schedules a retry; chrome.storage.sync.set throws in an
\* invalidated extension context and ends the handler there.
enableAudioMode(s) ==
    LET s1 == resetQualityAttemptFlag([NoteFlip(s, TRUE) EXCEPT
                                          !.audioModeEnabled = TRUE,
                                          !.hist.exhausted = FALSE])
        s2 == getVideoElement(s1)
        currentQuality == getPlaybackQuality(s2)
        saves == HasPlayer(s2) /\ currentQuality # "tiny" /\ currentQuality # "small"
        s3 == IF saves
              THEN [s2 EXCEPT !.savedQualityBeforeAudioMode = currentQuality]
              ELSE s2
        s4 == IF saves THEN [s3 EXCEPT !.preferredQuality = currentQuality] ELSE s3
    IN  IF ~s2.cachedVideoElement
        THEN setTimeout(s2, Timer("enableRetry", RETRY_DELAY))
        ELSE IF saves /\ ~s2.contextValid THEN [s3 EXCEPT !.hist.uncaught = TRUE]
        ELSE setTimeout([s4 EXCEPT !.videoHidden = TRUE, !.hist.setDue = Watched(s)],
                        Timer("enableCont", 0))

\* enableAudioMode after the await, without the fallback timeout.
enableAudioModeContNoFallback(s, playing) ==
    LET s1 == [s EXCEPT !.audioModeOverlay = TRUE]
        s2 == IF playing THEN setLowestQuality(s1)
              ELSE [s1 EXCEPT !.playListeners = @ + 1]
    IN  startUsageTracking(s2)

\* enableAudioMode after the await: the overlay exists, the Set request is
\* made at once when the video is playing, else on the play event and by the
\* 3 s fallback; usage tracking starts.
enableAudioModeCont(s, playing) ==
    LET s1 == [s EXCEPT !.audioModeOverlay = TRUE]
        s2 == IF playing THEN setLowestQuality(s1)
              ELSE setTimeout([s1 EXCEPT !.playListeners = @ + 1],
                              Timer("fallback", FALLBACK_TIMEOUT))
    IN  startUsageTracking(s2)


\* Whether applyModeLogic has run since the mode became 'off', and how often
\* it ran since the last navigation.
NoteApply(s) ==
    IF ~Watched(s) THEN s
    ELSE [s EXCEPT !.hist.offApplied = @ \/ s.currentModeType = "off",
                   !.hist.applyCalls = IF @ < 3 THEN @ + 1 ELSE @]

\* disableAudioMode as it would be did it leave the operation id as it is.
disableAudioModeKeepsId(s) ==
    LET s1 == getVideoElement([s EXCEPT !.audioModeEnabled = FALSE])
        s2 == IF s1.cachedVideoElement THEN [s1 EXCEPT !.videoHidden = FALSE] ELSE s1
        s3 == restoreQuality(s2)
        s4 == resetQualityAttemptFlag(s3)
        s5 == s4
        s6 == resetSettingsUIStyles(s5)
    IN  stopUsageTracking([s6 EXCEPT !.audioModeOverlay = FALSE,
                                     !.hist.disabled = @ \/ Watched(s),
                                     !.hist.navDisabled = @ \/ Watched(s)])

\* disableAudioMode
disableAudioMode(s) ==
    LET s1 == getVideoElement([NoteFlip(s, FALSE) EXCEPT !.audioModeEnabled = FALSE])
        s2 == IF s1.cachedVideoElement THEN [s1 EXCEPT !.videoHidden = FALSE] ELSE s1
        s3 == restoreQuality(s2)
        s4 == resetQualityAttemptFlag(s3)
        s5 == [s4 EXCEPT !.currentQualityOperationId = @ + 1]
        s6 == resetSettingsUIStyles(s5)
    IN  stopUsageTracking([s6 EXCEPT !.audioModeOverlay = FALSE,
                                     !.hist.disabled = @ \/ Watched(s),
                                     !.hist.navDisabled = @ \/ Watched(s)])

\* getCurrentVideoInfo: the video id of the URL with the title and the
\* channel the page shows; null when the URL has no video id.
getCurrentVideoInfo(s) ==
    IF ~isOnVideoPage(s) THEN NoVideoInfo
    ELSE [present |-> TRUE, videoId |-> s.url,
          videoTitle |-> s.domInfo.videoTitle, channelId |-> s.domInfo.channelId]

\* applyFilteredMode(retryCount), up to its await on the delay: the filter
\* rules are read from storage, then the evaluation waits 500 ms (400 ms on
\* a retry).
applyFilteredMode(s, retryCount) ==
    IF ~s.contextValid \/ ~isOnVideoPage(s) THEN s
    ELSE setTimeout(s, [Timer("filterEval", IF retryCount = 0 THEN FILTER_FIRST_DELAY
                                            ELSE FILTER_NEXT_DELAY)
                           EXCEPT !.attempts = retryCount, !.rules = s.filterRules])

\* The decision applyFilteredMode takes once the video info is there.
applyFilteredModeDecide(s, shouldEnable) ==
    IF shouldEnable
    THEN IF ~s.audioModeEnabled THEN enableAudioMode(s) ELSE setLowestQuality(s)
    ELSE IF s.audioModeEnabled THEN disableAudioMode(s) ELSE applyPreferredQuality(s)

\* applyFilteredMode after the delay, were audio mode left as it is when the
\* retries are used up.
applyFilteredModeEvalGivesUp(s, t) ==
    LET videoInfo == getCurrentVideoInfo(s)
    IN  IF ~videoInfo.present \/ videoInfo.channelId = NULL \/ videoInfo.videoTitle = <<>>
        THEN IF t.attempts < FILTER_MAX_RETRIES
             THEN setTimeout(s, [Timer("filterRetry", FILTER_RETRY_DELAY) EXCEPT
                                    !.attempts = t.attempts + 1])
             ELSE [s EXCEPT !.hist.exhausted = Watched(s)]
        ELSE applyFilteredModeDecide(
                 [s EXCEPT !.lastAppliedVideoId = videoInfo.videoId],
                 checkWhitelist(videoInfo, t.rules))

\* applyFilteredMode after the delay: video info that lacks the channel or
\* the title is retried up to five times, then audio mode is disabled;
\* otherwise the video is recorded and the whitelist decides.
applyFilteredModeEval(s, t) ==
    LET videoInfo == getCurrentVideoInfo(s)
    IN  IF ~videoInfo.present \/ videoInfo.channelId = NULL \/ videoInfo.videoTitle = <<>>
        THEN IF t.attempts < FILTER_MAX_RETRIES
             THEN setTimeout(s, [Timer("filterRetry", FILTER_RETRY_DELAY) EXCEPT
                                    !.attempts = t.attempts + 1])
             ELSE LET s1 == [s EXCEPT !.hist.exhausted = Watched(s)]
                  IN  IF s1.audioModeEnabled THEN disableAudioMode(s1) ELSE s1
        ELSE applyFilteredModeDecide(
                 [s EXCEPT !.lastAppliedVideoId = videoInfo.videoId,
                           !.hist.evaluated = IF Watched(s)
                                              THEN <<videoInfo, t.rules,
                                                     checkWhitelist(videoInfo, t.rules)>>
                                              ELSE @],
                 checkWhitelist(videoInfo, t.rules))

\* applyModeLogic as it would be did it re-enter audio mode for every video.
applyModeLogicRestarts(s0) ==
    LET s == NoteApply(s0) IN
    IF ~isOnVideoPage(s)
    THEN IF s.audioModeEnabled THEN disableAudioMode(s) ELSE s
    ELSE IF s.currentModeType = "off"
         THEN IF s.audioModeEnabled THEN disableAudioMode(s)
              ELSE applyPreferredQuality(s)
         ELSE IF s.currentModeType = "always"
              THEN IF ~s.audioModeEnabled THEN enableAudioMode(s)
                   ELSE enableAudioMode(disableAudioMode(s))
              ELSE applyFilteredMode(s, 0)

\* applyModeLogic
applyModeLogic(s0) ==
    LET s == NoteApply(s0) IN
    IF ~isOnVideoPage(s)
    THEN IF s.audioModeEnabled THEN disableAudioMode(s) ELSE s
    ELSE IF s.currentModeType = "off"
         THEN IF s.audioModeEnabled THEN disableAudioMode(s)
              ELSE applyPreferredQuality(s)
         ELSE IF s.currentModeType = "always"
              THEN IF ~s.audioModeEnabled THEN enableAudioMode(s)
                   ELSE setLowestQuality(s)
              ELSE applyFilteredMode(s, 0)

\* setupVideoReadyListener: attach the loadeddata listener to the video
\* element once, retrying while there is no watch page or no video element.
setupVideoReadyListener(s) ==
    IF ~isOnVideoPage(s)
    THEN setTimeout(s, Timer("setupListener", LISTENER_PAGE_RETRY_DELAY))
    ELSE IF ~s.videoPresent
         THEN setTimeout(s, Timer("setupListener", LISTENER_RETRY_DELAY))
         ELSE [s EXCEPT !.currentVideoElement = TRUE]

\* The loadeddata listener of the video element.
onLoadedData(s) ==
    IF ~isOnVideoPage(s) THEN s
    ELSE LET videoIdChanged == s.url # s.lastAppliedVideoId
             s1 == IF videoIdChanged THEN resetQualityAttemptFlag(s) ELSE s
         IN  IF s1.currentModeType = "off"
             THEN IF s1.audioModeEnabled THEN disableAudioMode(s1)
                  ELSE applyPreferredQuality(s1)
             ELSE IF s1.currentModeType = "filtered"
                  THEN IF videoIdChanged \/ ~s1.audioModeEnabled
                       THEN applyFilteredMode(s1, 0)
                       ELSE setLowestQuality(s1)
                  ELSE IF ~s1.audioModeEnabled THEN enableAudioMode(s1)
                       ELSE setLowestQuality(s1)

\* The yt-page-data-updated listener.
onPageDataUpdated(s) ==
    IF ~isOnVideoPage(s) THEN s
    ELSE LET videoIdChanged == s.url # s.lastAppliedVideoId
         IN  IF s.currentModeType = "filtered" /\ (videoIdChanged \/ ~s.audioModeEnabled)
             THEN setTimeout(s, Timer("pageData", PAGE_DATA_DELAY))
             ELSE s

\* A navigation was detected: remembered on the menu sequences in progress.
MarkNav(b) ==
    LET S == BagToSet(b)
        f(t) == IF t.kind \in ClickKinds THEN [t EXCEPT !.nav = TRUE] ELSE t
        unmarked(u) == [u EXCEPT !.nav = FALSE]
        count(u) == (IF u \in S THEN b[u] ELSE 0)
                    + (IF u.kind \in ClickKinds /\ u.nav /\ unmarked(u) \in S
                       THEN b[unmarked(u)] ELSE 0)
    IN  [u \in {f(t) : t \in S} |-> count(u)]

NoteNavigation(s) == [s EXCEPT !.timers = MarkNav(@)]

\* The state r a navigation-detection handler leaves when run in state s,
\* with the record of whether it changed the operation id.
Detected(s, r) ==
    [r EXCEPT !.hist.navAdvancedId =
                  @ \/ r.currentQualityOperationId # s.currentQualityOperationId]

\* The MutationObserver callback of initNavigationObserver.
onMutation(s) ==
    IF s.url = s.lastUrl THEN s
    ELSE LET s1 == clearVideoCache([NoteNavigation(s) EXCEPT !.lastUrl = s.url])
             s2 == resetQualityAttemptFlag([s1 EXCEPT !.lastAppliedVideoId = NULL])
             s3 == cancelPendingQualityOperations(s2)
             s4 == IF s3.navigationDebounceTimer
                   THEN clearTimeout(s3, "navigationDebounceTimer")
                   ELSE s3
         IN  [setTimeoutKeep(s4, Timer("navDebounce", NAV_DEBOUNCE),
                             "navigationDebounceTimer")
                 EXCEPT !.navigationDebounceTimer = TRUE]

\* The two yt-navigate-finish listeners.
onNavigateFinish(s) ==
    LET s1 == clearVideoCache(NoteNavigation(s))
        s2 == resetQualityAttemptFlag([s1 EXCEPT !.lastAppliedVideoId = NULL])
        s3 == setTimeout(s2, Timer("navFinish", NAV_FINISH_DELAY))
    IN  setTimeout(s3, Timer("setupListener", LISTENER_RETRY_DELAY))

\* The callback of the playlist check interval.
playlistCheck(s) ==
    IF ~isOnVideoPage(s) THEN s
    ELSE IF s.url # s.lastCheckedVideoId
         THEN LET s1 == [s EXCEPT !.lastCheckedVideoId = s.url]
              IN  IF s.url # s1.lastAppliedVideoId
                  THEN applyModeLogic(resetQualityAttemptFlag(NoteNavigation(
                           [s1 EXCEPT !.hist.polled = Watched(s1)])))
                  ELSE s1
         ELSE s


\* ------------------------------------------ the delayed steps of the menu
Stale(s, t) == t.opId # s.currentQualityOperationId

\* The branch every delayed step takes when its operation id is stale.
ClickAbort(s, t) ==
    Complete(resetSettingsUIStyles([s EXCEPT !.hist.staleAbort = TRUE]), t.cb)

\* A click on a rendered item of the quality menu; the menu works whether or
\* not the control API does.
Select(s, t, q) ==
    [s EXCEPT !.hostQuality = Played(s, q),
              !.hist.navSelect = @ \/ t.nav,
              !.hist.staleSelect = @ \/ Stale(s, t)]

\* The quality submenu lists the offered tiers, highest first, then "Auto".
LabelRendered(s, text) ==
    text = "Auto" \/ (text # NULL /\ TextToQuality(text) \in s.availableLevels)

\* History kept for the properties: the label the select step looked for,
\* whether the menu rendered it, and the label of the item it clicked (NULL
\* when it clicked none).
NoteSelect(s, t, clicked) ==
    IF ~Observed(s) THEN s
    ELSE [s EXCEPT !.hist.selected = <<t.text, LabelRendered(s, t.text), clicked>>]

\* Step 1 (300 ms after the click on the settings button): open the quality
\* submenu, or clean up when the menu has no quality item.
clickOpenQualityMenu(s, t) ==
    IF Stale(s, t) THEN ClickAbort(s, t)
    ELSE IF s.hostUI # "noQualityItem"
         THEN setTimeout(s, [t EXCEPT !.kind = "clickSelect", !.delay = CLICK_DELAY_SELECT])
         ELSE Complete(resetSettingsUIStyles(s), t.cb)

\* Step 2 without its comparison of operation ids.
clickSelectOptionAnyId(s, t) ==
    LET s1 == IF LabelRendered(s, t.text)
              THEN Select(s, t, TextToQuality(t.text))
              ELSE IF t.text = "144p" \/ t.text = "720p"
                   THEN Select(s, t, "auto")
                   ELSE s
    IN  setTimeout(s1, [t EXCEPT !.kind = "clickClose", !.delay = CLICK_DELAY_CLOSE])

\* Step 2: click the target label; when it is not rendered, the last menu
\* item for 144p, "Auto" for 720p, nothing for any other label.
clickSelectOption(s, t) ==
    IF Stale(s, t) THEN ClickAbort(s, t)
    ELSE LET s1 == IF LabelRendered(s, t.text)
                   THEN Select(s, t, TextToQuality(t.text))
                   ELSE IF t.text = "144p" \/ t.text = "720p"
                        THEN Select(s, t, "auto")
                        ELSE s
             s2 == NoteSelect(s1, t, IF LabelRendered(s, t.text) THEN t.text
                                     ELSE IF t.text = "144p" \/ t.text = "720p"
                                          THEN "Auto" ELSE NULL)
         IN  setTimeout(s2, [t EXCEPT !.kind = "clickClose", !.delay = CLICK_DELAY_CLOSE])

\* Step 3: dispatch Escape to close the menu.
clickClose(s, t) ==
    IF Stale(s, t) THEN ClickAbort(s, t)
    ELSE setTimeout(s, [t EXCEPT !.kind = "clickFinal", !.delay = CLICK_DELAY_FINAL])

\* Step 4: restore the styles and signal completion, whatever the id.
clickFinal(s, t) == Complete(resetSettingsUIStyles(s), t.cb)


\* ------------------------------------------------------------ initial state
\* The levels getAvailableQualityLevels reports: a host that offers 144p to
\* 1080p, a host without 144p and 1080p, and a host that reports nothing.
FullLevels == {"tiny", "small", "hd720", "hd1080", "auto"}
LevelChoices == {FullLevels, {"small", "hd720", "auto"}, {}}

HostUIs == {"full", "noButton", "noQualityItem"}

Hist0 ==
    [lastRequested |-> NULL, lastExecuted |-> NULL, burst |-> NULL, burstExecs |-> 0,
     burstLen |-> 0, fallbacks |-> 0, navSelect |-> FALSE, staleSelect |-> FALSE,
     staleAbort |-> FALSE, navAdvancedId |-> FALSE, restoreFrom |-> <<>>,
     recon |-> FALSE, offApplied |-> FALSE, applyCalls |-> 0, evaluated |-> <<>>,
     disabled |-> FALSE, prefExecs |-> 0, navSet |-> FALSE, navRestore |-> FALSE,
     navEnabled |-> FALSE, navDisabled |-> FALSE, exhausted |-> FALSE,
     enables |-> 0, effects |-> 0, quick |-> FALSE, polled |-> FALSE,
     usage |-> FALSE, loggedDisabled |-> FALSE, dropped |-> FALSE,
     selected |-> <<>>, setDue |-> FALSE,
     verified |-> <<>>, ruleEdit |-> "none", uncaught |-> FALSE,
     follow |-> FALSE, carry |-> FALSE, staleStart |-> FALSE, flips |-> 0]

\* The engine once the content script has run its top level on watch page
\* A: the initial storage read is pending, the video-ready listener is
\* attached or retrying, the playlist check runs, nothing else has happened.
EngineAt(page, pendingTimers, events, history) ==
    /\ audioModeEnabled = FALSE
    /\ currentModeType = "always"
    /\ savedQualityBeforeAudioMode = NULL
    /\ qualityOperationInProgress = FALSE
    /\ qualityOperationTimeout = FALSE
    /\ lastQualityOperationType = NULL
    /\ currentQualityOperationId = 0
    /\ lastAppliedVideoId = NULL
    /\ url = page
    /\ lastUrl = page
    /\ lastCheckedVideoId = (IF page \in VideoPages THEN page ELSE NULL)
    /\ navigationDebounceTimer = FALSE
    /\ usageTrackingInterval = FALSE
    /\ qualityCheckCounter = 0
    /\ cachedVideoElement = FALSE
    /\ audioModeOverlay = FALSE
    /\ playListeners = 0
    /\ currentVideoElement = videoPresent
    /\ timers = pendingTimers
    /\ attempted = FALSE
    /\ stylesHidden = FALSE
    /\ videoHidden = FALSE
    /\ contextValid = TRUE
    /\ pendingEvents = events
    /\ navCount = 0
    /\ modeChanges = 0
    /\ driftCount = 0
    /\ requests = 0
    /\ toggles = 0
    /\ usageLogs = NoLogs
    /\ badgeText = NULL
    /\ hist = history

EngineStartWith(pendingTimers, events, history) ==
    EngineAt("A", pendingTimers, events, history)

EngineStart(pendingTimers, events) == EngineStartWith(pendingTimers, events, Hist0)

EngineInit ==
    EngineStart(SetToBag({Timer("init", 0)}
                         \cup (IF videoPresent THEN {}
                               ELSE {Timer("setupListener", LISTENER_RETRY_DELAY)})),
                {"loadeddata"})

\* The host of the engine specification: player and video element exist,
\* the video plays, the host starts at 720p, its programmatic setters do
\* nothing, and the stored mode is 'always'.  The settings menu either has
\* its quality item or (a host whose menu is not labelled "quality", as in
\* another interface language) has none.
Init ==
    /\ playerPresent = TRUE
    /\ videoPresent = TRUE
    /\ videoPlaying = TRUE
    /\ hostQuality = "hd720"
    /\ availableLevels = FullLevels
    /\ apiWorks = FALSE
    /\ hostUI \in {"full", "noQualityItem"}
    /\ preferredQuality = NULL
    /\ storedMode = "always"
    /\ filterRules = NoRules
    /\ domInfo = PageInfo("A")
    /\ EngineInit

\* ------------------------------------------------------------------- actions
\* The callback of the initial chrome.storage.sync.get: the stored preferred
\* quality and mode are loaded and the mode logic is applied.
FireInit ==
    \E t \in Due("init") :
        LET s0 == Fired(Cur, t)
            m == IF s0.storedMode = NULL THEN "always" ELSE s0.storedMode
            s1 == IF s0.preferredQuality # NULL
                  THEN [s0 EXCEPT !.savedQualityBeforeAudioMode = s0.preferredQuality]
                  ELSE s0
        IN  Commit(applyModeLogic([s1 EXCEPT !.currentModeType = m]))

\* The debounce timer of requestQualityOperation.
FireDebounce ==
    \E t \in Due("debounce") :
        Commit([executeQualityOperation(
                    [Fired(Cur, t) EXCEPT !.qualityOperationTimeout = FALSE,
                                          !.hist.carry = t.nav], t.type)
                   EXCEPT !.hist.carry = FALSE])

\* The re-queue timer of executeQualityOperation.
FireRequeue ==
    \E t \in Due("requeue") :
        Commit([requestQualityOperationFrom([Fired(Cur, t) EXCEPT !.hist.carry = t.nav],
                                            t.type, REQUEUE_DEBOUNCE, "requeue")
                   EXCEPT !.hist.carry = FALSE])

FireSetRetry ==
    \E t \in Due("setRetry") : Commit(setLowestQualityInternal(Fired(Cur, t), t.cb))

FireVerifyLowest ==
    \E t \in Due("flqVerify") : Commit(forceLowestQualityVerify(Fired(Cur, t), t))

FireClickMenu ==
    \E t \in Due("clickMenu") : Commit(clickOpenQualityMenu(Fired(Cur, t), t))

FireClickSelect ==
    \E t \in Due("clickSelect") : Commit(clickSelectOption(Fired(Cur, t), t))

FireClickClose ==
    \E t \in Due("clickClose") : Commit(clickClose(Fired(Cur, t), t))

FireClickFinal ==
    \E t \in Due("clickFinal") : Commit(clickFinal(Fired(Cur, t), t))

FireRestoreRetry ==
    \E t \in Due("restoreRetry") :
        Commit(restoreQualityInternal(Fired(Cur, t), t.cb, t.attempts))

FireRestoreGet ==
    \E t \in Due("restoreGet") : Commit(restoreQualityApply(Fired(Cur, t), t))

FireRestoreVerify ==
    \E t \in Due("restoreVerify") : Commit(restoreQualityVerify(Fired(Cur, t), t))

FirePreferredRetry ==
    \E t \in Due("preferredRetry") :
        Commit(applyPreferredQualityInternal(Fired(Cur, t), t.cb))

FirePreferredGet ==
    \E t \in Due("preferredGet") : Commit(applyPreferredQualityApply(Fired(Cur, t), t))

FirePreferredVerify ==
    \E t \in Due("preferredVerify") : Commit(applyPreferredQualityVerify(Fired(Cur, t), t))

\* The 600 ms timer of the MutationObserver and the 300 ms timer of
\* yt-navigate-finish: both apply the mode logic.
FireNavDebounce ==
    \E t \in Due("navDebounce") : Commit(applyModeLogic(Fired(Cur, t)))

FireNavFinish ==
    \E t \in Due("navFinish") : Commit(applyModeLogic(Fired(Cur, t)))

FireSetupListener ==
    \E t \in Due("setupListener") : Commit(setupVideoReadyListener(Fired(Cur, t)))

FireEnableRetry ==
    \E t \in Due("enableRetry") : Commit(enableAudioMode(Fired(Cur, t)))

FireEnableCont ==
    \E t \in Due("enableCont") :
        Commit(enableAudioModeCont(Fired(Cur, t), videoPlaying))

\* The 1 s timer of the play listener, and the 3 s fallback of enableAudioMode.
FirePlayDelay ==
    \E t \in Due("playDelay") : Commit(setLowestQuality(Fired(Cur, t)))

FireFallback ==
    \E t \in Due("fallback") :
        Commit(IF audioModeEnabled THEN setLowestQuality(Fired(Cur, t)) ELSE Fired(Cur, t))

\* The video starts playing: the play listener of enableAudioMode (once).
PlayEvent ==
    /\ ~videoPlaying
    /\ Commit(AddTimers([Cur EXCEPT !.videoPlaying = TRUE, !.playListeners = 0],
                        Timer("playDelay", QUALITY_SET_DELAY), playListeners))

\* The usage-tracking interval (5 s).  Its period is far longer than the
\* 500 ms verification of a periodic check, so no tick finds the callback
\* chain of an earlier tick still pending.
UsageTick ==
    /\ usageTrackingInterval
    /\ \A t \in BagToSet(timers) : t.origin # "periodic" /\ t.kind # "usageGet"
    /\ Commit(usageTrackingTick(Cur))

\* The callback of the tick's chrome.storage.local.get (the ticks followed
\* are bounded).
FireUsageGet ==
    \E t \in Due("usageGet") :
        /\ t.logs.activeLogs < MaxTicks * USAGE_STEP
        /\ Commit(usageLogsCallback(Fired(Cur, t), t))

\* The playlist check interval (1.5 s).
PlaylistCheck == Commit(Detected(Cur, playlistCheck(Cur)))

\* The host page navigates to page p (single-page navigation): the URL
\* changes, the new item starts at the host's default quality, the host will
\* emit yt-navigate-finish and, on a watch page, load the video.  The user
\* navigates again only once the engine has settled from the navigation
\* before.
NavigateWith(p, info, events) ==
    /\ navCount < MaxNav
    /\ p # url
    /\ navCount > 0 => (url = lastUrl /\ pendingEvents = {} /\ timers = EmptyBag)
    /\ Commit([Cur EXCEPT !.url = p, !.navCount = @ + 1,
                          !.hostQuality = HostDefault(Cur),
                          !.domInfo = info,
                          !.pendingEvents = events \cup
                                            (IF p \in VideoPages
                                             THEN {"ynf", "loadeddata"} ELSE {"ynf"}),
                          !.hist.fallbacks = 0,
                          !.hist.applyCalls = 0,
                          !.hist.prefExecs = 0,
                          !.hist.navSet = FALSE,
                          !.hist.navRestore = FALSE,
                          !.hist.navDisabled = FALSE,
                          !.hist.polled = FALSE,
                          !.hist.navEnabled = Watched(Cur) /\ audioModeEnabled])

\* A navigation whose page shows the metadata of the new item at once.
Navigate(p) == NavigateWith(p, PageInfo(p), {})

\* Navigation to another video.
HostNavigate == \E p \in VideoPages : Navigate(p)

\* Navigation away from the watch page.
HostLeaves == Navigate("home")

\* A DOM mutation under the observed container.
MutationObserved ==
    /\ url # lastUrl
    /\ Commit(Detected(Cur, onMutation(Cur)))

YtNavigateFinish ==
    /\ "ynf" \in pendingEvents
    /\ Commit(Detected(Cur, onNavigateFinish([Cur EXCEPT !.pendingEvents = @ \ {"ynf"}])))

LoadedData ==
    /\ "loadeddata" \in pendingEvents
    /\ currentVideoElement
    /\ Commit(onLoadedData([Cur EXCEPT !.pendingEvents = @ \ {"loadeddata"}]))

\* The popup's modeChanged message.
ModeChanged ==
    \E m \in Modes :
        /\ modeChanges < MaxModeChanges
        /\ \A t \in BagToSet(timers) : t.kind # "init"
        /\ m # currentModeType
        /\ Commit(applyModeLogic([Cur EXCEPT !.currentModeType = m,
                                             !.storedMode = m,
                                             !.lastAppliedVideoId = NULL,
                                             !.modeChanges = @ + 1,
                                             !.hist.offApplied = FALSE]))

\* The evaluation of applyFilteredMode after its delay, its retry timer, and
\* the 200 ms timer of the yt-page-data-updated listener.
FireFilterEval ==
    \E t \in Due("filterEval") : Commit(applyFilteredModeEval(Fired(Cur, t), t))

FireFilterRetry ==
    \E t \in Due("filterRetry") : Commit(applyFilteredMode(Fired(Cur, t), t.attempts))

FirePageData ==
    \E t \in Due("pageData") : Commit(applyFilteredMode(Fired(Cur, t), 0))

\* A navigation to another video, made once the engine is at rest, whose
\* metadata arrives later: until then the selectors of getCurrentVideoInfo
\* find the title and the channel of the previous video.
HostNavigateLate ==
    \E p \in VideoPages :
        /\ timers = EmptyBag
        /\ pendingEvents = {}
        /\ NavigateWith(p, domInfo, {"pageData"})

\* The page data of the current video arrives: the page shows its title and
\* channel and the host emits yt-page-data-updated.
PageDataUpdated ==
    /\ "pageData" \in pendingEvents
    /\ Commit(onPageDataUpdated([Cur EXCEPT !.pendingEvents = @ \ {"pageData"},
                                            !.domInfo = PageInfo(url)]))

\* The host creates the player and the video element.
PlayerAppears ==
    /\ ~playerPresent
    /\ Commit([Cur EXCEPT !.playerPresent = TRUE])

VideoAppears ==
    /\ ~videoPresent
    /\ Commit([Cur EXCEPT !.videoPresent = TRUE])

\* The host changes the quality on its own (after an ad, or the user picks
\* one in the menu).
HostDrift ==
    /\ driftCount < MaxDrift
    /\ hostQuality # HostDefault(Cur)
    /\ Commit([Cur EXCEPT !.hostQuality = HostDefault(Cur), !.driftCount = @ + 1])

\* The extension is reloaded or updated: the context of this content script
\* is invalidated.
InvalidateContext ==
    /\ contextValid
    /\ Commit([Cur EXCEPT !.contextValid = FALSE])

\* The engine in mode 'always' on a host whose player is ready: every request
\* is a Set request, so no request is ever re-queued.
Next ==
    \/ FireInit
    \/ FireDebounce
    \/ FireVerifyLowest
    \/ FireClickMenu
    \/ FireClickSelect
    \/ FireClickClose
    \/ FireClickFinal
    \/ FireNavDebounce
    \/ FireNavFinish
    \/ FireSetupListener
    \/ FireEnableCont
    \/ UsageTick
    \/ PlaylistCheck
    \/ HostNavigate
    \/ MutationObserved
    \/ YtNavigateFinish
    \/ LoadedData

Spec == Init /\ [][Next]_vars

TypeOK ==
    /\ audioModeEnabled \in BOOLEAN
    /\ currentQualityOperationId \in 0..MaxOpId
    /\ IsABag(timers)


\* ------------------------------------------------ the reconciler's modes
\* The engine started in each of the three modes on watch page A, with the
\* user changing the mode in the popup, on a host whose setters work: the
\* video element may not exist yet when the content script starts, and the
\* whitelist holds the channel of video A or of video B.
InitModes ==
    /\ playerPresent = TRUE
    /\ videoPresent \in BOOLEAN
    /\ videoPlaying = TRUE
    /\ hostQuality = "hd720"
    /\ availableLevels = FullLevels
    /\ apiWorks = TRUE
    /\ hostUI = "full"
    /\ preferredQuality = NULL
    /\ storedMode \in Modes
    /\ filterRules \in {Rules({"UC1"}, {}), Rules({"UC2"}, {})}
    /\ domInfo = PageInfo("A")
    /\ EngineStartWith(SetToBag({Timer("init", 0)}
                                \cup (IF videoPresent THEN {}
                                      ELSE {Timer("setupListener", LISTENER_RETRY_DELAY)})),
                       {"loadeddata"},
                       [Hist0 EXCEPT !.recon = TRUE])

NextModes ==
    \/ FireInit
    \/ FireDebounce
    \/ FireRequeue
    \/ FireSetRetry
    \/ FireVerifyLowest
    \/ FireRestoreRetry
    \/ FireRestoreGet
    \/ FireRestoreVerify
    \/ FirePreferredRetry
    \/ FirePreferredGet
    \/ FirePreferredVerify
    \/ FireSetupListener
    \/ FireEnableRetry
    \/ FireEnableCont
    \/ FireFilterEval
    \/ LoadedData
    \/ ModeChanged
    \/ VideoAppears

SpecModes == InitModes /\ [][NextModes]_vars

\* --------------------------------------------- navigation in mode 'always'
\* The engine in mode 'always' on a host whose setters work, with the user
\* navigating from video to video at any moment.
InitAlways ==
    /\ playerPresent = TRUE
    /\ videoPresent = TRUE
    /\ videoPlaying = TRUE
    /\ hostQuality = "hd720"
    /\ availableLevels = FullLevels
    /\ apiWorks = TRUE
    /\ hostUI = "full"
    /\ preferredQuality = NULL
    /\ storedMode = "always"
    /\ filterRules = NoRules
    /\ domInfo = PageInfo("A")
    /\ EngineStartWith(SetToBag({Timer("init", 0)}), {"loadeddata"},
                       [Hist0 EXCEPT !.recon = TRUE])

NextAlways ==
    \/ FireInit
    \/ FireDebounce
    \/ FireVerifyLowest
    \/ FireNavDebounce
    \/ FireNavFinish
    \/ FireSetupListener
    \/ FireEnableCont
    \/ UsageTick
    \/ PlaylistCheck
    \/ HostNavigate
    \/ MutationObserved
    \/ YtNavigateFinish
    \/ LoadedData

SpecAlways == InitAlways /\ [][NextAlways]_vars

\* ------------------------------------------------ navigation in mode 'off'
\* The engine in mode 'off' with audio mode disabled, on a host whose setters
\* work, with or without a stored preferred quality.  The user navigates to
\* another video once the engine is at rest, so that whatever runs after the
\* navigation was caused by it.
NavigateAtRest == \E p \in VideoPages :
    /\ timers = EmptyBag
    /\ pendingEvents = {}
    /\ Navigate(p)

InitOff ==
    /\ playerPresent = TRUE
    /\ videoPresent = TRUE
    /\ videoPlaying = TRUE
    /\ hostQuality = "hd720"
    /\ availableLevels = FullLevels
    /\ apiWorks = TRUE
    /\ hostUI = "full"
    /\ preferredQuality \in {NULL, "hd1080"}
    /\ storedMode = "off"
    /\ filterRules = NoRules
    /\ domInfo = PageInfo("A")
    /\ EngineStartWith(SetToBag({Timer("init", 0)}), {"loadeddata"},
                       [Hist0 EXCEPT !.recon = TRUE])

NextOff ==
    \/ FireInit
    \/ FireDebounce
    \/ FirePreferredGet
    \/ FirePreferredVerify
    \/ FireNavDebounce
    \/ FireNavFinish
    \/ FireSetupListener
    \/ PlaylistCheck
    \/ NavigateAtRest
    \/ MutationObserved
    \/ YtNavigateFinish
    \/ LoadedData

SpecOff == InitOff /\ [][NextOff]_vars

\* --------------------------------------------------------- mode 'filtered'
\* The engine in mode 'filtered' on a host whose setters work.  The whitelist
\* holds the channel of video A or of video B; the page the content script
\* starts on shows the metadata of A; after a navigation the metadata of the
\* new video arrives with yt-page-data-updated.
InitFiltered ==
    /\ playerPresent = TRUE
    /\ videoPresent = TRUE
    /\ videoPlaying = TRUE
    /\ hostQuality = "hd720"
    /\ availableLevels = FullLevels
    /\ apiWorks = TRUE
    /\ hostUI = "full"
    /\ preferredQuality = NULL
    /\ storedMode = "filtered"
    /\ filterRules \in {Rules({"UC1"}, {}), Rules({"UC2"}, {})}
    /\ domInfo = PageInfo("A")
    /\ EngineStartWith(SetToBag({Timer("init", 0)}), {"loadeddata"},
                       [Hist0 EXCEPT !.recon = TRUE])

NextFiltered ==
    \/ FireInit
    \/ FireDebounce
    \/ FireRequeue
    \/ FireVerifyLowest
    \/ FireRestoreGet
    \/ FireRestoreVerify
    \/ FirePreferredGet
    \/ FirePreferredVerify
    \/ FireNavDebounce
    \/ FireNavFinish
    \/ FireSetupListener
    \/ FireEnableCont
    \/ FireFilterEval
    \/ FirePageData
    \/ PlaylistCheck
    \/ HostNavigateLate
    \/ MutationObserved
    \/ YtNavigateFinish
    \/ LoadedData
    \/ PageDataUpdated

SpecFiltered == InitFiltered /\ [][NextFiltered]_vars

\* ------------------------------------------- filter rules edited in the popup
\* The chrome.storage.onChanged listener for a change of filterRules alone.
onFilterRulesChangedIgnored(s) == s

onFilterRulesChanged(s) ==
    IF s.currentModeType = "filtered"
    THEN applyFilteredMode([s EXCEPT !.lastAppliedVideoId = NULL], 0)
    ELSE s

\* The rule sets the popup stores in this specification.
RuleEdits == {Rules(c, {}) : c \in SUBSET {"UC1", "UC2"}}

\* What an edit does to the video on the page: it removes the rule that
\* matches it while audio mode is enabled, adds one while audio mode is
\* disabled, or neither.
EditKind(s, r) ==
    LET was == checkWhitelist(getCurrentVideoInfo(s), s.filterRules)
        is  == checkWhitelist(getCurrentVideoInfo(s), r)
    IN  IF was /\ ~is /\ s.audioModeEnabled THEN "removed"
        ELSE IF ~was /\ is /\ ~s.audioModeEnabled THEN "added"
        ELSE "other"

\* The popup stores other filter rules. The edit comes once the evaluation
\* that read the rules before it has run: that evaluation's delay started
\* first and is no longer than the one the edit starts.
RulesChanged ==
    \E r \in RuleEdits :
        /\ r # filterRules
        /\ modeChanges < MaxRuleEdits
        /\ \A t \in BagToSet(timers) : t.kind \notin {"init", "filterEval", "filterRetry"}
        /\ Commit(onFilterRulesChanged([Cur EXCEPT !.filterRules = r,
                                                   !.modeChanges = @ + 1,
                                                   !.hist.ruleEdit = EditKind(Cur, r)]))

\* The engine in mode 'filtered' on a video of channel UC1, on a host whose
\* setters work, with the filter rules edited in the popup.
InitRules ==
    /\ playerPresent = TRUE
    /\ videoPresent = TRUE
    /\ videoPlaying = TRUE
    /\ hostQuality = "hd720"
    /\ availableLevels = FullLevels
    /\ apiWorks = TRUE
    /\ hostUI = "full"
    /\ preferredQuality = NULL
    /\ storedMode = "filtered"
    /\ filterRules \in {Rules({"UC1"}, {}), Rules({"UC2"}, {})}
    /\ domInfo = PageInfo("A")
    /\ EngineStartWith(SetToBag({Timer("init", 0)}), {},
                       [Hist0 EXCEPT !.recon = TRUE])

NextRules ==
    \/ FireInit
    \/ FireDebounce
    \/ FireRequeue
    \/ FireVerifyLowest
    \/ FireRestoreGet
    \/ FireRestoreVerify
    \/ FirePreferredGet
    \/ FirePreferredVerify
    \/ FireEnableCont
    \/ FireFilterEval
    \/ RulesChanged

SpecRules ==
    /\ InitRules
    /\ [][NextRules]_vars
    /\ WF_vars(FireInit)
    /\ WF_vars(FireFilterEval)

\* ------------------------------------------ video info that stays missing
\* The engine on a host whose page never shows a title and a channel that
\* getCurrentVideoInfo finds, started in mode 'always' or 'filtered', with
\* the user changing the mode in the popup.
InitNoInfo ==
    /\ playerPresent = TRUE
    /\ videoPresent = TRUE
    /\ videoPlaying = TRUE
    /\ hostQuality = "hd720"
    /\ availableLevels = FullLevels
    /\ apiWorks = TRUE
    /\ hostUI = "full"
    /\ preferredQuality = NULL
    /\ storedMode \in {"always", "filtered"}
    /\ filterRules = Rules({"UC1"}, {})
    /\ domInfo = NoPageInfo
    /\ EngineStartWith(SetToBag({Timer("init", 0)}), {"loadeddata"},
                       [Hist0 EXCEPT !.recon = TRUE])

NextNoInfo ==
    \/ FireInit
    \/ FireDebounce
    \/ FireRequeue
    \/ FireVerifyLowest
    \/ FireRestoreGet
    \/ FireRestoreVerify
    \/ FirePreferredGet
    \/ FirePreferredVerify
    \/ FireEnableCont
    \/ FireFilterEval
    \/ FireFilterRetry
    \/ LoadedData
    \/ ModeChanged

\* The event loop runs the pending timers of the evaluations.
SpecNoInfo ==
    /\ InitNoInfo
    /\ [][NextNoInfo]_vars
    /\ WF_vars(FireFilterEval)
    /\ WF_vars(FireFilterRetry)

\* ------------------------------------------------------ the rule evaluator
\* checkWhitelist applied once to every video info and every rule set within
\* the bounds: the page is a watch page or not, shows any title and no
\* channel or one of two, and the stored rules are missing, lack the
\* whitelist, or whitelist any channels and at most MaxKeywords keywords.
Titles == Strings(MaxTitleLen)

Keywords == Strings(MaxKeywordLen)

KeywordSets == {k \in SUBSET Keywords : Cardinality(k) <= MaxKeywords}

RuleSets ==
    {NoRules, [NoRules EXCEPT !.present = TRUE]}
        \cup {Rules(c, k) : c \in SUBSET {"UC1", "UC2"}, k \in KeywordSets}

InitWhitelist ==
    /\ playerPresent = TRUE
    /\ videoPresent = TRUE
    /\ videoPlaying = TRUE
    /\ hostQuality = "hd720"
    /\ availableLevels = FullLevels
    /\ apiWorks = TRUE
    /\ hostUI = "full"
    /\ preferredQuality = NULL
    /\ storedMode = "filtered"
    /\ filterRules \in RuleSets
    /\ domInfo \in [videoTitle : Titles, channelId : {NULL, "UC1", "UC3"}]
    /\ \E page \in {"A", "home"} :
           EngineAt(page, EmptyBag, {}, [Hist0 EXCEPT !.recon = TRUE])

\* The call of checkWhitelist with the video info of the page and the rules
\* read from storage.
CheckWhitelist ==
    /\ hist.evaluated = <<>>
    /\ Commit([Cur EXCEPT !.hist.evaluated =
                              <<getCurrentVideoInfo(Cur), filterRules,
                                checkWhitelist(getCurrentVideoInfo(Cur), filterRules)>>])

NextWhitelist == CheckWhitelist

SpecWhitelist == InitWhitelist /\ [][NextWhitelist]_vars

\* ------------------------------------------------- the Set request of enable
\* The engine started in mode 'always' or 'off' on a host whose setters work
\* and whose video may not be playing yet, with the user changing the mode
\* and the video starting to play at any moment.  No loadeddata event is
\* pending, so every Set request comes from enableAudioMode.
InitEnable ==
    /\ playerPresent = TRUE
    /\ videoPresent = TRUE
    /\ videoPlaying \in BOOLEAN
    /\ hostQuality = "hd720"
    /\ availableLevels = FullLevels
    /\ apiWorks = TRUE
    /\ hostUI = "full"
    /\ preferredQuality \in {NULL, "hd1080"}
    /\ storedMode \in {"always", "off"}
    /\ filterRules = NoRules
    /\ domInfo = PageInfo("A")
    /\ EngineStartWith(SetToBag({Timer("init", 0)}), {},
                       [Hist0 EXCEPT !.recon = TRUE])

NextEnable ==
    \/ FireInit
    \/ FireDebounce
    \/ FireRequeue
    \/ FireVerifyLowest
    \/ FireRestoreGet
    \/ FireRestoreVerify
    \/ FirePreferredGet
    \/ FirePreferredVerify
    \/ FireEnableCont
    \/ FirePlayDelay
    \/ FireFallback
    \/ PlayEvent
    \/ ModeChanged

\* Every timer fires when due; the play event may never come.
SpecEnable ==
    /\ InitEnable
    /\ [][NextEnable]_vars
    /\ WF_vars(FireEnableCont)
    /\ WF_vars(FireFallback)

\* ------------------------------------- what was armed while enabled
\* The popup's modeChanged message, sent once enableAudioMode has run to its
\* end, so that whatever is pending then was armed by a completed enable.
ModeChangedSettled ==
    /\ Due("enableCont") = {}
    /\ ModeChanged

NextDisarm ==
    \/ FireInit
    \/ FireDebounce
    \/ FireRequeue
    \/ FireVerifyLowest
    \/ FireRestoreGet
    \/ FireRestoreVerify
    \/ FirePreferredGet
    \/ FirePreferredVerify
    \/ FireEnableCont
    \/ FirePlayDelay
    \/ FireFallback
    \/ PlayEvent
    \/ ModeChangedSettled

SpecDisarm == InitEnable /\ [][NextDisarm]_vars

\* ------------------------------------------------ leaving the watch page
\* The engine started in each mode on watch page A, whose video element may
\* not exist yet, with the user leaving for a page that is not a watch page.
InitLeave ==
    /\ playerPresent = TRUE
    /\ videoPresent \in BOOLEAN
    /\ videoPlaying = TRUE
    /\ hostQuality = "hd720"
    /\ availableLevels = FullLevels
    /\ apiWorks = TRUE
    /\ hostUI = "full"
    /\ preferredQuality = NULL
    /\ storedMode \in Modes
    /\ filterRules = Rules({"UC1"}, {})
    /\ domInfo = PageInfo("A")
    /\ EngineStartWith(SetToBag({Timer("init", 0)}
                                \cup (IF videoPresent THEN {}
                                      ELSE {Timer("setupListener", LISTENER_RETRY_DELAY)})),
                       {},
                       [Hist0 EXCEPT !.recon = TRUE])

NextLeave ==
    \/ FireInit
    \/ FireDebounce
    \/ FireRequeue
    \/ FireVerifyLowest
    \/ FireRestoreRetry
    \/ FireRestoreGet
    \/ FireRestoreVerify
    \/ FireNavDebounce
    \/ FireNavFinish
    \/ FireSetupListener
    \/ FireEnableRetry
    \/ FireEnableCont
    \/ FireFilterEval
    \/ FireFilterRetry
    \/ HostLeaves
    \/ MutationObserved
    \/ YtNavigateFinish

SpecLeave == InitLeave /\ [][NextLeave]_vars

\* ------------------------------------------------ the operation-id token
\* The engine started in mode 'always' on a host whose setters do nothing,
\* so that every Set operation goes on to the menu sequence, with the user
\* changing the mode in the popup at any moment.
InitToken ==
    /\ playerPresent = TRUE
    /\ videoPresent = TRUE
    /\ videoPlaying = TRUE
    /\ hostQuality = "hd720"
    /\ availableLevels = FullLevels
    /\ apiWorks = FALSE
    /\ hostUI \in {"full", "noQualityItem"}
    /\ preferredQuality \in {NULL, "hd1080"}
    /\ storedMode = "always"
    /\ filterRules = NoRules
    /\ domInfo = PageInfo("A")
    /\ EngineStartWith(SetToBag({Timer("init", 0)}), {"loadeddata"},
                       [Hist0 EXCEPT !.recon = TRUE])

NextToken ==
    \/ FireInit
    \/ FireDebounce
    \/ FireRequeue
    \/ FireVerifyLowest
    \/ FireClickMenu
    \/ FireClickSelect
    \/ FireClickClose
    \/ FireClickFinal
    \/ FireRestoreGet
    \/ FireRestoreVerify
    \/ FirePreferredGet
    \/ FirePreferredVerify
    \/ FireEnableCont
    \/ FireFilterEval
    \/ LoadedData
    \/ ModeChanged

SpecToken == InitToken /\ [][NextToken]_vars

\* ------------------------------------ a mode change that arrives twice
\* selectMode of the popup: the mode is stored and the modeChanged message
\* is sent, so the content script will see the storage change and the
\* message.  A selection is made once the evaluation of the page has run
\* and both notices of the selection before have arrived.
PopupSelectsMode ==
    \E m \in Modes :
        /\ modeChanges < MaxModeChanges
        /\ \A t \in BagToSet(timers) : t.kind \notin {"init", "filterEval"}
        /\ pendingEvents \cap {"modeMessage", "modeStorage"} = {}
        /\ m # storedMode
        /\ Commit([Cur EXCEPT !.storedMode = m,
                              !.modeChanges = @ + 1,
                              !.pendingEvents = @ \cup {"modeMessage", "modeStorage"},
                              !.hist.flips = 0,
                              !.hist.offApplied = FALSE])

\* The chrome.runtime.onMessage listener for modeChanged.
OnModeChangedMessage ==
    /\ "modeMessage" \in pendingEvents
    /\ Commit(applyModeLogic([Cur EXCEPT !.pendingEvents = @ \ {"modeMessage"},
                                         !.currentModeType = storedMode,
                                         !.lastAppliedVideoId = NULL]))

\* The chrome.storage.onChanged listener for a change of audioModeType.
OnAudioModeTypeChanged ==
    /\ "modeStorage" \in pendingEvents
    /\ Commit(applyModeLogic([Cur EXCEPT !.pendingEvents = @ \ {"modeStorage"},
                                         !.currentModeType = storedMode,
                                         !.lastAppliedVideoId = NULL]))

\* The engine started in each mode on a video of channel UC1, on a host whose
\* setters work, the whitelist holding that channel or another.
InitTwice ==
    /\ playerPresent = TRUE
    /\ videoPresent = TRUE
    /\ videoPlaying = TRUE
    /\ hostQuality = "hd720"
    /\ availableLevels = FullLevels
    /\ apiWorks = TRUE
    /\ hostUI = "full"
    /\ preferredQuality = NULL
    /\ storedMode \in Modes
    /\ filterRules \in {Rules({"UC1"}, {}), Rules({"UC2"}, {})}
    /\ domInfo = PageInfo("A")
    /\ EngineStartWith(SetToBag({Timer("init", 0)}), {},
                       [Hist0 EXCEPT !.recon = TRUE, !.follow = TRUE])

NextTwice ==
    \/ FireInit
    \/ FireDebounce
    \/ FireRequeue
    \/ FireVerifyLowest
    \/ FireRestoreGet
    \/ FireRestoreVerify
    \/ FirePreferredGet
    \/ FirePreferredVerify
    \/ FireEnableCont
    \/ FireFilterEval
    \/ PopupSelectsMode
    \/ OnModeChangedMessage
    \/ OnAudioModeTypeChanged

SpecTwice == InitTwice /\ [][NextTwice]_vars

\* -------------------------------------------- the stored preferred quality
\* The engine in mode 'always' or 'off' on a host whose setters work, with a
\* preferred quality the user chose in the popup, the user changing the mode
\* and choosing another quality at any moment.
SelectQuality ==
    \E quality \in {"hd1080", "hd1440"} :
        /\ quality # preferredQuality
        /\ Commit([Cur EXCEPT !.preferredQuality = quality])

InitPreferred ==
    /\ playerPresent = TRUE
    /\ videoPresent = TRUE
    /\ videoPlaying = TRUE
    /\ hostQuality = "hd720"
    /\ availableLevels = FullLevels
    /\ apiWorks = TRUE
    /\ hostUI = "full"
    /\ preferredQuality = "hd1080"
    /\ storedMode \in {"always", "off"}
    /\ filterRules = NoRules
    /\ domInfo = PageInfo("A")
    /\ EngineStartWith(SetToBag({Timer("init", 0)}), {"loadeddata"},
                       [Hist0 EXCEPT !.recon = TRUE])

NextPreferred ==
    \/ FireInit
    \/ FireDebounce
    \/ FireRequeue
    \/ FireVerifyLowest
    \/ FireRestoreGet
    \/ FireRestoreVerify
    \/ FirePreferredGet
    \/ FirePreferredVerify
    \/ FireEnableCont
    \/ LoadedData
    \/ ModeChanged
    \/ SelectQuality

SpecPreferred == InitPreferred /\ [][NextPreferred]_vars

\* ------------------------------------------------------------- the badge
\* The background script that keeps the badge by the operating mode
\* (src/content.js from line 820).  The content script plays no part: its
\* state stays as constructed.
BADGE_DEBOUNCE == 1

\* updateBadge
updateBadge(s, modeType) ==
    IF modeType = "always" THEN [s EXCEPT !.badgeText = "ON"]
    ELSE [s EXCEPT !.badgeText = "FLT"]

\* debouncedUpdateBadge: the pending update is replaced.
debouncedUpdateBadge(s, modeType) ==
    setTimeoutKeep(clearTimeout(s, "badgeUpdateTimeout"),
                   [Timer("badgeUpdate", BADGE_DEBOUNCE) EXCEPT !.target = modeType],
                   "badgeUpdateTimeout")

\* The callback of chrome.storage.sync.get(['audioModeType']) of the
\* onInstalled listener and of the top level of the script.
FireBadgeGet ==
    \E t \in Due("badgeGet") :
        Commit(updateBadge(Fired(Cur, t),
                           IF storedMode = NULL THEN "always" ELSE storedMode))

FireBadgeUpdate ==
    \E t \in Due("badgeUpdate") : Commit(updateBadge(Fired(Cur, t), t.target))

\* selectMode of the popup stores another mode; the background's
\* chrome.storage.onChanged listener debounces the badge update.
SelectMode ==
    \E m \in Modes :
        /\ modeChanges < MaxSelections
        /\ m # (IF storedMode = NULL THEN "always" ELSE storedMode)
        /\ Commit(debouncedUpdateBadge([Cur EXCEPT !.storedMode = m,
                                                   !.modeChanges = @ + 1], m))

\* The background script starts: after an install the onInstalled listener
\* and the top level both read the stored mode, after a browser start only
\* the top level does.
InitBadge ==
    /\ playerPresent = TRUE
    /\ videoPresent = TRUE
    /\ videoPlaying = TRUE
    /\ hostQuality = "hd720"
    /\ availableLevels = FullLevels
    /\ apiWorks = TRUE
    /\ hostUI = "full"
    /\ preferredQuality = NULL
    /\ storedMode \in Modes \cup {NULL}
    /\ filterRules = NoRules
    /\ domInfo = PageInfo("A")
    /\ \E n \in 1..2 :
           EngineStartWith([x \in {Timer("badgeGet", 0)} |-> n], {}, Hist0)

NextBadge ==
    \/ FireBadgeGet
    \/ FireBadgeUpdate
    \/ SelectMode

SpecBadge == InitBadge /\ [][NextBadge]_vars

\* ------------------------------------------------------ usage statistics
\* The engine started in mode 'always' on a host whose setters work, with
\* the usage statistics followed.  The user changes the mode in the popup
\* and pauses or resumes the video at any moment.
VideoPauses ==
    /\ videoPlaying
    /\ Commit([Cur EXCEPT !.videoPlaying = FALSE])

InitUsage ==
    /\ playerPresent = TRUE
    /\ videoPresent = TRUE
    /\ videoPlaying = TRUE
    /\ hostQuality = "hd720"
    /\ availableLevels = FullLevels
    /\ apiWorks = TRUE
    /\ hostUI = "full"
    /\ preferredQuality = NULL
    /\ storedMode \in {"always", "off"}
    /\ filterRules = NoRules
    /\ domInfo = PageInfo("A")
    /\ EngineStartWith(SetToBag({Timer("init", 0)}), {},
                       [Hist0 EXCEPT !.recon = TRUE, !.usage = TRUE])

NextUsage ==
    \/ FireInit
    \/ FireDebounce
    \/ FireVerifyLowest
    \/ FireRestoreGet
    \/ FireRestoreVerify
    \/ FirePreferredGet
    \/ FirePreferredVerify
    \/ FireEnableCont
    \/ FirePlayDelay
    \/ FireFallback
    \/ UsageTick
    \/ FireUsageGet
    \/ ModeChanged
    \/ VideoPauses
    \/ PlayEvent

SpecUsage == InitUsage /\ [][NextUsage]_vars

\* ------------------------------------------- two pages sharing the storage
\* A tick of the content script of another page with audio mode enabled: its
\* chrome.storage.local.get reads the same stored entries.
OtherContextTick ==
    /\ usageLogs.activeLogs < MaxTicks * USAGE_STEP
    /\ Due("otherUsageGet") = {}
    /\ Commit(setTimeout(Cur, [Timer("otherUsageGet", 0) EXCEPT !.logs = usageLogs]))

\* The callback of the other page's read, its video playing or not.
FireOtherUsageGet ==
    \E t \in Due("otherUsageGet"), isPlaying \in BOOLEAN :
        Commit([Fired(Cur, t) EXCEPT !.usageLogs = CountedUp(t.logs, isPlaying)])

\* The engine in mode 'always' on a host whose setters work, with the usage
\* statistics followed and a second page ticking at any moment.
InitShared ==
    /\ playerPresent = TRUE
    /\ videoPresent = TRUE
    /\ videoPlaying = TRUE
    /\ hostQuality = "hd720"
    /\ availableLevels = FullLevels
    /\ apiWorks = TRUE
    /\ hostUI = "full"
    /\ preferredQuality = NULL
    /\ storedMode = "always"
    /\ filterRules = NoRules
    /\ domInfo = PageInfo("A")
    /\ EngineStartWith(SetToBag({Timer("init", 0)}), {},
                       [Hist0 EXCEPT !.recon = TRUE, !.usage = TRUE])

NextShared ==
    \/ FireInit
    \/ FireDebounce
    \/ FireVerifyLowest
    \/ FireEnableCont
    \/ UsageTick
    \/ FireUsageGet
    \/ OtherContextTick
    \/ FireOtherUsageGet
    \/ VideoPauses

SpecShared == InitShared /\ [][NextShared]_vars

\* ------------------------------------------------ the polling fallback
\* The engine in mode 'always' or 'filtered' on a host whose setters work.
\* The user moves from video A to video B at any moment, and none of the
\* events of that navigation reaches the content script: no DOM mutation is
\* observed, and yt-navigate-finish and loadeddata stay undelivered.  Only
\* the interval of startPlaylistCheck looks at the URL.  The page shows the
\* metadata of B at once or still those of A.
FirstLoadedData ==
    /\ navCount = 0
    /\ LoadedData

NavigateUnnoticed ==
    /\ \A t \in BagToSet(timers) : t.kind # "init"
    /\ \E p \in VideoPages :
           \E info \in {domInfo, PageInfo(p)} : NavigateWith(p, info, {})

InitPoll ==
    /\ playerPresent = TRUE
    /\ videoPresent = TRUE
    /\ videoPlaying = TRUE
    /\ hostQuality = "hd720"
    /\ availableLevels = FullLevels
    /\ apiWorks = TRUE
    /\ hostUI = "full"
    /\ preferredQuality = NULL
    /\ storedMode \in {"always", "filtered"}
    /\ filterRules \in {Rules({"UC1"}, {}), Rules({"UC2"}, {})}
    /\ domInfo = PageInfo("A")
    /\ EngineStartWith(SetToBag({Timer("init", 0)}), {"loadeddata"},
                       [Hist0 EXCEPT !.recon = TRUE])

NextPoll ==
    \/ FireInit
    \/ FireDebounce
    \/ FireRequeue
    \/ FireVerifyLowest
    \/ FireRestoreGet
    \/ FireRestoreVerify
    \/ FirePreferredGet
    \/ FirePreferredVerify
    \/ FireEnableCont
    \/ FireFilterEval
    \/ PlaylistCheck
    \/ FirstLoadedData
    \/ NavigateUnnoticed

\* The interval fires every 1.5 s as long as the page lives.
SpecPoll == InitPoll /\ [][NextPoll]_vars /\ WF_vars(PlaylistCheck)

\* ------------------------------------------------------ the toggle command
\* The toggleAudioMode message is handled by the content script of
\* src/content.js, whose enableAudioMode and disableAudioMode are synchronous
\* and whose setLowestQuality calls the setters itself.  Its delays have the
\* values of the constants above.  On the hosts of this specification the
\* setters work, so the verification never starts the menu sequence.
MaxToggles == 2

\* setLowestQuality of src/content.js, with its forceLowestQuality
setLowestQualityOld(s) ==
    LET s1 == getVideoElement(s)
    IN  IF ~HasPlayer(s1) \/ ~s1.cachedVideoElement
        THEN setTimeout(s1, Timer("oldSetRetry", SET_RETRY_DELAY))
        ELSE setTimeout(HostSet(s1, "tiny"), Timer("oldVerify", VERIFY_DELAY))

\* The verification callback of that forceLowestQuality.
forceLowestQualityVerifyOld(s) ==
    LET currentQuality == getPlaybackQuality(s)
    IN  IF currentQuality # "tiny" /\ currentQuality # "small" /\ ~s.attempted
        THEN [s EXCEPT !.attempted = TRUE, !.stylesHidden = TRUE]
        ELSE [s EXCEPT !.attempted = TRUE]

\* enableAudioMode of src/content.js.  The history counts the transitions
\* from disabled to enabled and the runs of the enable side effects.
enableAudioModeOld(s) ==
    LET s1 == [s EXCEPT !.audioModeEnabled = TRUE,
                        !.hist.enables = IF ~s.audioModeEnabled /\ @ < 2
                                         THEN @ + 1 ELSE @]
        s2 == getVideoElement(s1)
        s3 == [s2 EXCEPT !.videoHidden = TRUE, !.audioModeOverlay = TRUE,
                         !.hist.effects = IF @ < 2 THEN @ + 1 ELSE @]
        s4 == IF s3.videoPlaying THEN setLowestQualityOld(s3)
              ELSE setTimeout([s3 EXCEPT !.playListeners = @ + 1],
                              Timer("oldFallback", FALLBACK_TIMEOUT))
        s5 == IF s4.contextValid THEN [s4 EXCEPT !.storedMode = "on"] ELSE s4
    IN  IF ~s2.cachedVideoElement
        THEN setTimeout(s2, Timer("oldEnableRetry", RETRY_DELAY))
        ELSE startUsageTracking(s5)

\* disableAudioMode of src/content.js
disableAudioModeOld(s) ==
    LET s1 == getVideoElement([s EXCEPT !.audioModeEnabled = FALSE])
        s2 == IF s1.cachedVideoElement THEN [s1 EXCEPT !.videoHidden = FALSE] ELSE s1
        s3 == [s2 EXCEPT !.audioModeOverlay = FALSE]
        s4 == IF s3.contextValid THEN [s3 EXCEPT !.storedMode = "off"] ELSE s3
    IN  stopUsageTracking(s4)

\* The toggleAudioMode branch of the message listener of src/content.js.
toggleAudioMode(s) ==
    IF s.audioModeEnabled THEN disableAudioModeOld(s) ELSE enableAudioModeOld(s)

\* A toggle command: the first at any moment, a further one before any
\* timer has fired since the one before (the commands are 50 ms apart, the
\* shortest timer takes 500 ms).
ToggleCommand ==
    /\ toggles < MaxToggles
    /\ toggles > 0 => hist.quick
    /\ Commit(toggleAudioMode([Cur EXCEPT !.toggles = @ + 1, !.hist.quick = TRUE]))

\* The state in which timer t has been taken off the queue, later than 50 ms
\* after the last toggle command.
FiredLater(t) == [Fired(Cur, t) EXCEPT !.hist.quick = FALSE]

FireOldEnableRetry ==
    \E t \in Due("oldEnableRetry") : Commit(enableAudioModeOld(FiredLater(t)))

FireOldSetRetry ==
    \E t \in Due("oldSetRetry") : Commit(setLowestQualityOld(FiredLater(t)))

FireOldVerify ==
    \E t \in Due("oldVerify") : Commit(forceLowestQualityVerifyOld(FiredLater(t)))

FireOldPlayDelay ==
    \E t \in Due("oldPlayDelay") : Commit(setLowestQualityOld(FiredLater(t)))

FireOldFallback ==
    \E t \in Due("oldFallback") :
        Commit(IF audioModeEnabled THEN setLowestQualityOld(FiredLater(t))
               ELSE FiredLater(t))

\* The video starts playing: the play listeners of enableAudioMode (once each).
OldPlayEvent ==
    /\ ~videoPlaying
    /\ videoPresent
    /\ LET s1 == [Cur EXCEPT !.videoPlaying = TRUE, !.playListeners = 0]
       IN  Commit(IF playListeners = 0 THEN s1
                  ELSE AddTimers(s1, Timer("oldPlayDelay", QUALITY_SET_DELAY),
                                 playListeners))

\* The content script of src/content.js started with audio mode not stored:
\* nothing is pending.  The page may have no video element yet (a page of
\* the site other than a watch page), and the video may not be playing.
InitToggle ==
    /\ playerPresent \in BOOLEAN
    /\ videoPresent \in BOOLEAN
    /\ videoPresent => playerPresent
    /\ videoPlaying \in BOOLEAN
    /\ videoPresent \/ ~videoPlaying
    /\ hostQuality \in {"hd720", "small"}
    /\ availableLevels = FullLevels
    /\ apiWorks = TRUE
    /\ hostUI = "full"
    /\ preferredQuality = NULL
    /\ storedMode = "off"
    /\ filterRules = NoRules
    /\ domInfo = PageInfo("A")
    /\ EngineStartWith(EmptyBag, {}, [Hist0 EXCEPT !.recon = TRUE])

NextToggle ==
    \/ ToggleCommand
    \/ FireOldEnableRetry
    \/ FireOldSetRetry
    \/ FireOldVerify
    \/ FireOldPlayDelay
    \/ FireOldFallback
    \/ OldPlayEvent
    \/ VideoAppears
    \/ PlayerAppears

SpecToggle == InitToggle /\ [][NextToggle]_vars

\* ------------------------------------------- the coordinator on its own
\* The coordinator and the three operations under every caller: the public
\* functions setLowestQuality, restoreQuality and applyPreferredQuality are
\* called in any order at any moment (by the reconciler, the listeners and
\* the timers of the engine), the navigation handler cancels the pending
\* request, and the host's player and video element may not exist yet.
MaxRequests == 3

CallSetLowestQuality ==
    /\ requests < MaxRequests
    /\ Commit(setLowestQuality([Cur EXCEPT !.requests = @ + 1]))

CallRestoreQuality ==
    /\ requests < MaxRequests
    /\ Commit(restoreQuality([Cur EXCEPT !.requests = @ + 1]))

CallApplyPreferredQuality ==
    /\ requests < MaxRequests
    /\ Commit(applyPreferredQuality([Cur EXCEPT !.requests = @ + 1]))

\* The navigation handler's call of cancelPendingQualityOperations.
CallCancelPending ==
    /\ qualityOperationTimeout
    /\ Commit(cancelPendingQualityOperations(Cur))

\* The engine with nothing pending, on a host whose player may not exist yet.
InitCoord ==
    /\ playerPresent \in BOOLEAN
    /\ videoPresent = TRUE
    /\ videoPlaying = TRUE
    /\ hostQuality = "hd720"
    /\ availableLevels = FullLevels
    /\ apiWorks \in BOOLEAN
    /\ hostUI \in HostUIs
    /\ preferredQuality \in {NULL, "hd1080"}
    /\ storedMode = "always"
    /\ filterRules = NoRules
    /\ domInfo = PageInfo("A")
    /\ EngineStart(EmptyBag, {})

NextCoord ==
    \/ CallSetLowestQuality
    \/ CallRestoreQuality
    \/ CallApplyPreferredQuality
    \/ CallCancelPending
    \/ PlayerAppears
    \/ FireDebounce
    \/ FireRequeue
    \/ FireSetRetry
    \/ FireVerifyLowest
    \/ FireClickMenu
    \/ FireClickSelect
    \/ FireClickClose
    \/ FireClickFinal
    \/ FireRestoreRetry
    \/ FireRestoreGet
    \/ FireRestoreVerify
    \/ FirePreferredRetry
    \/ FirePreferredGet
    \/ FirePreferredVerify

SpecCoord == InitCoord /\ [][NextCoord]_vars

\* --------------------------------------------------- the Set operation
\* Set requests made at any moment on a host that plays tiny, small or
\* hd720, whose setters work or not, and that reports all levels, no tiny,
\* or nothing.
InitSet ==
    /\ playerPresent = TRUE
    /\ videoPresent = TRUE
    /\ videoPlaying = TRUE
    /\ hostQuality \in {"tiny", "small", "hd720"}
    /\ availableLevels \in LevelChoices
    /\ hostQuality \in availableLevels \/ availableLevels = {}
    /\ apiWorks \in BOOLEAN
    /\ hostUI = "full"
    /\ preferredQuality = NULL
    /\ storedMode = "always"
    /\ filterRules = NoRules
    /\ domInfo = PageInfo("A")
    /\ EngineStart(EmptyBag, {})

NextSet ==
    \/ CallSetLowestQuality
    \/ FireDebounce
    \/ FireVerifyLowest
    \/ FireClickMenu
    \/ FireClickSelect
    \/ FireClickClose
    \/ FireClickFinal

SpecSet == InitSet /\ [][NextSet]_vars

\* --------------------------------------- requests waiting at a navigation
\* The coordinator on a host whose player is ready, with the navigation
\* handler calling cancelPendingQualityOperations while requests wait in the
\* debounce timer or in the re-queue delay.
NavigationCancels ==
    /\ \E t \in BagToSet(timers) : t.kind \in {"debounce", "requeue"} /\ ~t.nav
    /\ Commit(cancelPendingQualityOperations(Cur))

InitCancel ==
    /\ playerPresent = TRUE
    /\ videoPresent = TRUE
    /\ videoPlaying = TRUE
    /\ hostQuality = "hd720"
    /\ availableLevels = FullLevels
    /\ apiWorks = TRUE
    /\ hostUI = "full"
    /\ preferredQuality \in {NULL, "hd1080"}
    /\ storedMode = "always"
    /\ filterRules = NoRules
    /\ domInfo = PageInfo("A")
    /\ EngineStartWith(EmptyBag, {}, [Hist0 EXCEPT !.follow = TRUE])

NextCancel ==
    \/ CallSetLowestQuality
    \/ CallRestoreQuality
    \/ CallApplyPreferredQuality
    \/ NavigationCancels
    \/ FireDebounce
    \/ FireRequeue
    \/ FireVerifyLowest
    \/ FireRestoreGet
    \/ FireRestoreVerify
    \/ FirePreferredGet
    \/ FirePreferredVerify

SpecCancel == InitCancel /\ [][NextCancel]_vars

\* ------------------------------------------- the extension context is lost
\* The coordinator on a host whose player is ready, with the extension
\* reloaded or updated at any moment while the page stays open.
InitInvalid ==
    /\ playerPresent = TRUE
    /\ videoPresent = TRUE
    /\ videoPlaying = TRUE
    /\ hostQuality = "hd720"
    /\ availableLevels = FullLevels
    /\ apiWorks = TRUE
    /\ hostUI = "full"
    /\ preferredQuality \in {NULL, "hd1080"}
    /\ storedMode = "always"
    /\ filterRules = NoRules
    /\ domInfo = PageInfo("A")
    /\ EngineStart(EmptyBag, {})

NextInvalid ==
    \/ CallSetLowestQuality
    \/ CallRestoreQuality
    \/ CallApplyPreferredQuality
    \/ FireDebounce
    \/ FireRequeue
    \/ FireVerifyLowest
    \/ FireRestoreGet
    \/ FireRestoreVerify
    \/ FirePreferredGet
    \/ FirePreferredVerify
    \/ InvalidateContext

SpecInvalid == InitInvalid /\ [][NextInvalid]_vars

\* The event loop runs every pending callback: each timer action is weakly
\* fair.  Nothing obliges the callers to call or the host to create its
\* player.
SpecCoordFair ==
    /\ InitCoord
    /\ [][NextCoord]_vars
    /\ WF_vars(FireDebounce)
    /\ WF_vars(FireRequeue)
    /\ WF_vars(FireSetRetry)
    /\ WF_vars(FireVerifyLowest)
    /\ WF_vars(FireClickMenu)
    /\ WF_vars(FireClickSelect)
    /\ WF_vars(FireClickClose)
    /\ WF_vars(FireClickFinal)
    /\ WF_vars(FireRestoreRetry)
    /\ WF_vars(FireRestoreGet)
    /\ WF_vars(FireRestoreVerify)
    /\ WF_vars(FirePreferredRetry)
    /\ WF_vars(FirePreferredGet)
    /\ WF_vars(FirePreferredVerify)

\* ------------------------------------------------ the Restore operation
\* A Restore operation whose storage read is pending, for every session-saved
\* quality, stored preference and list of levels of the host.
QualityCodes == TierSet \cup {"auto", "unknown", NULL}

InitRestore ==
    /\ playerPresent = TRUE
    /\ videoPresent = TRUE
    /\ videoPlaying = TRUE
    /\ hostQuality = "tiny"
    /\ availableLevels \in LevelChoices
    /\ apiWorks \in BOOLEAN
    /\ hostUI = "full"
    /\ preferredQuality \in QualityCodes
    /\ storedMode = "off"
    /\ filterRules = NoRules
    /\ domInfo = PageInfo("A")
    /\ audioModeEnabled = FALSE
    /\ currentModeType = "off"
    /\ savedQualityBeforeAudioMode \in QualityCodes
    /\ qualityOperationInProgress = TRUE
    /\ qualityOperationTimeout = FALSE
    /\ lastQualityOperationType = "restore"
    /\ currentQualityOperationId = 1
    /\ lastAppliedVideoId = NULL
    /\ url = "A"
    /\ lastUrl = "A"
    /\ lastCheckedVideoId = "A"
    /\ navigationDebounceTimer = FALSE
    /\ usageTrackingInterval = FALSE
    /\ qualityCheckCounter = 0
    /\ cachedVideoElement = TRUE
    /\ audioModeOverlay = FALSE
    /\ playListeners = 0
    /\ currentVideoElement = TRUE
    /\ timers = SetToBag({[Timer("restoreGet", 0) EXCEPT !.cb = TRUE]})
    /\ attempted = FALSE
    /\ stylesHidden = FALSE
    /\ videoHidden = FALSE
    /\ contextValid = TRUE
    /\ pendingEvents = {}
    /\ navCount = 0
    /\ modeChanges = 0
    /\ driftCount = 0
    /\ requests = 1
    /\ toggles = 0
    /\ usageLogs = NoLogs
    /\ badgeText = NULL
    /\ hist = [Hist0 EXCEPT !.lastRequested = "restore", !.lastExecuted = "restore"]

NextRestore ==
    \/ FireRestoreGet
    \/ FireRestoreVerify
    \/ FireClickMenu
    \/ FireClickSelect
    \/ FireClickClose
    \/ FireClickFinal

SpecRestore == InitRestore /\ [][NextRestore]_vars


\* ================================================================ properties
\* The pending delayed steps of menu sequences, and the pending callbacks that
\* carry the coordinator's cleanup closure.
ClickSteps == {t \in BagToSet(timers) : t.kind \in ClickKinds}

CleanupCarriers == [t \in {x \in BagToSet(timers) : x.cb} |-> timers[t]]

Quiescent == timers = EmptyBag /\ ~qualityOperationInProgress

LowQualities == {"tiny", "small"}

\* The first of the session-saved quality, the stored preference and hd720
\* that is set and is neither tiny nor small.
FirstUsable(saved, preferred) ==
    IF saved # NULL /\ saved \notin LowQualities THEN saved
    ELSE IF preferred # NULL /\ preferred \notin LowQualities THEN preferred
    ELSE "hd720"

\* C1: in every reachable state at most one menu interaction sequence is
\* active, whether the coordinator or the periodic re-enforcement started it.
C1_AtMostOneMenuSequence == Cardinality(ClickSteps) <= 1

\* C2: executeQualityOperation never starts an operation while one is in
\* progress: at most one callback chain carries the coordinator's cleanup, it
\* exists only while qualityOperationInProgress is set, and so at most one
\* coordinator-issued menu sequence is pending.
C2_MutualExclusion ==
    /\ BagCardinality(CleanupCarriers) <= 1
    /\ (BagCardinality(CleanupCarriers) = 1 => qualityOperationInProgress)
    /\ Cardinality({t \in ClickSteps : t.origin = "coordinator"}) <= 1

\* C2 witness: a coordinator-issued menu sequence is running while a request
\* of another type, found the lock held, waits in the re-queue delay.
C2_Witness ==
    /\ qualityOperationInProgress
    /\ \E t \in ClickSteps : t.origin = "coordinator" /\ t.cb
    /\ \E t \in BagToSet(timers) : t.kind = "requeue"

\* C3: a run of same-type requests, each made before the debounce timer of
\* the previous one fired, with no operation in flight and no navigation in
\* between, is executed exactly once: until the execution exactly one
\* debounce timer, of that type, is pending, and afterwards one execution
\* has happened.
C3_Coalescing ==
    hist.burst # NULL =>
        LET d == {t \in BagToSet(timers) : t.kind = "debounce"}
        IN  IF hist.burstExecs = 0
            THEN /\ Cardinality(d) = 1
                 /\ \A t \in d : t.type = hist.burst /\ timers[t] = 1
            ELSE hist.burstExecs = 1 /\ hist.lastExecuted = hist.burst

\* C3 witness: a run of at least two requests has been executed once.
C3_Witness ==
    /\ hist.burst # NULL
    /\ hist.burstLen >= 2
    /\ hist.burstExecs = 1

\* C4: every operation executeQualityOperation starts eventually runs its
\* cleanup and clears qualityOperationInProgress, whatever the host does.
C4_OperationCompletes == qualityOperationInProgress ~> ~qualityOperationInProgress

\* C5: last writer wins: once requests have stopped and every operation and
\* timer has finished, the operation executed last has the type of the
\* request the callers made last.
C5_LastWriterWins ==
    (Quiescent /\ hist.lastRequested # NULL) => hist.lastExecuted = hist.lastRequested

C7_RestoreNeverLow ==
    /\ \A t \in BagToSet(timers) :
          t.kind = "restoreVerify" => t.target \notin LowQualities
    /\ \A t \in ClickSteps : t.text \notin {"144p", "240p"}

\* C7 witness: saved and preferred quality were both tiny or small and the
\* target resolved is hd720.
C7_Witness ==
    \E t \in BagToSet(timers) :
        /\ t.kind = "restoreVerify"
        /\ hist.restoreFrom[1] \in LowQualities
        /\ hist.restoreFrom[2] \in LowQualities
        /\ t.target = "hd720"

\* C8 as stated: the Restore target is the first of saved, preferred and
\* hd720 that is set and not tiny or small.
C8_TargetIsFirstUsable ==
    \A t \in BagToSet(timers) :
        t.kind = "restoreVerify" =>
            t.target = FirstUsable(hist.restoreFrom[1], hist.restoreFrom[2])

\* C8 as the code has it: the Restore target is that first usable candidate
\* when the host lists no levels or lists the candidate, and 'auto' when the
\* host lists levels without it.
C8_TargetIsFirstUsableOrAuto ==
    \A t \in BagToSet(timers) :
        t.kind = "restoreVerify" =>
            LET c == FirstUsable(hist.restoreFrom[1], hist.restoreFrom[2])
            IN  t.target = IF availableLevels # {} /\ c \notin availableLevels
                           THEN "auto" ELSE c

\* C8 witness: the host lists levels without the candidate and the target is
\* 'auto'.
C8_Witness ==
    \E t \in BagToSet(timers) :
        /\ t.kind = "restoreVerify"
        /\ t.target = "auto"
        /\ FirstUsable(hist.restoreFrom[1], hist.restoreFrom[2]) # "auto"

\* C9: in Always mode, on a host whose setters leave the quality at hd720,
\* at most one menu sequence starts between two navigations.
C9_FallbackOncePerVideo == hist.fallbacks <= 1

\* C10: a re-enforcement started by the periodic tick never starts a menu
\* sequence.
C10_PeriodicNeverClicks == \A t \in ClickSteps : t.origin # "periodic"

\* C11: whenever the mode is 'off' and applyModeLogic has run since the mode
\* became 'off', audio mode is disabled, whatever enable retry timers and
\* filtered-mode evaluations were pending when the mode changed.
C11_OffMeansDisabled ==
    (currentModeType = "off" /\ hist.offApplied) => ~audioModeEnabled

\* C18: once disableAudioMode has run, in every state in which audio mode is
\* disabled (no enable has been requested since) the overlay is absent, the
\* usage interval is cleared and the video surface is restored, also when an
\* enableAudioMode was suspended at its await or waiting on its retry timer.
C18_DisabledIsClean ==
    (hist.disabled /\ ~audioModeEnabled) =>
        (~audioModeOverlay /\ ~usageTrackingInterval /\ ~videoHidden)

\* Every signal of the last navigation has been delivered and handled.
NavigationHandled ==
    /\ navCount > 0
    /\ url = lastUrl
    /\ pendingEvents = {}
    /\ timers = EmptyBag

\* C12: in mode 'off' with audio mode disabled, the signals of one navigation
\* together make exactly one Preferred operation execute: never more than
\* one, and one once every signal has been handled.
C12_OnePreferredPerNavigation ==
    (navCount > 0 /\ currentModeType = "off") =>
        /\ hist.prefExecs <= 1
        /\ NavigationHandled => hist.prefExecs = 1

\* C19: for one navigation the MutationObserver, yt-navigate-finish and the
\* playlist check together invoke applyModeLogic at most once.
C19_ApplyOncePerNavigation == navCount > 0 => hist.applyCalls <= 1

\* What checkWhitelist answers for the video of the current URL once its
\* metadata is shown.
CurrentVideoMatches ==
    checkWhitelist([present |-> TRUE, videoId |-> url,
                    videoTitle |-> PageInfo(url).videoTitle,
                    channelId |-> PageInfo(url).channelId], filterRules)

\* C13: in mode 'filtered', once every signal and evaluation of a navigation
\* to a video whose metadata can be extracted has been handled, audio mode is
\* enabled exactly when the whitelist matches the video, and a navigation
\* from a matching video that ends on a video that does not match has
\* requested a Restore.
C13_FilteredSettles ==
    (currentModeType = "filtered" /\ NavigationHandled /\ domInfo = PageInfo(url)) =>
        /\ audioModeEnabled <=> CurrentVideoMatches
        /\ (hist.navEnabled /\ ~CurrentVideoMatches) => hist.navRestore

\* The pending steps of filtered-mode evaluations.
FilterChains == {t \in BagToSet(timers) : t.kind \in {"filterEval", "filterRetry"}}

\* C15: in mode 'filtered', while the video info cannot be extracted, an
\* invocation of applyFilteredMode retries at most five times; when the
\* retries are used up audio mode is disabled and stays so until an enable;
\* and every chain of retries ends.
C15_RetriesBoundedAndEnd ==
    /\ [](\A t \in FilterChains : t.attempts <= FILTER_MAX_RETRIES)
    /\ [](hist.exhausted => ~audioModeEnabled)
    /\ <>[](FilterChains = {})

\* C15 witness: audio mode was enabled in mode 'always', the mode became
\* 'filtered', and the evaluation disabled audio mode after its fifth retry.
C15_Witness ==
    /\ hist.exhausted
    /\ hist.disabled
    /\ ~audioModeEnabled
    /\ currentModeType = "filtered"

\* keyword occurs in title when the case of the letters is ignored
CaseInsensitiveSubstring(keyword, title) ==
    \E i \in 0..(Len(title) - Len(keyword)) :
        \A j \in 1..Len(keyword) : LowerChar(title[i + j]) = LowerChar(keyword[j])

\* C14: checkWhitelist answers true exactly when the channel id of the video
\* is one of the whitelisted channel ids or a whitelisted keyword is a
\* case-insensitive substring of the title; it answers false for a missing
\* video info, for missing rules or a missing whitelist, and for a rule
\* whose field (channel id, title) the video lacks.
C14_WhitelistMatch ==
    hist.evaluated # <<>> =>
        LET v == hist.evaluated[1]
            r == hist.evaluated[2]
        IN  hist.evaluated[3] <=>
                /\ v.present /\ r.present /\ r.whitelist
                /\ \/ v.channelId # NULL /\ v.channelId \in r.channels
                   \/ /\ v.videoTitle # <<>>
                      /\ \E kw \in r.keywords :
                             CaseInsensitiveSubstring(kw, v.videoTitle)

\* C14 witness: no channel is whitelisted and the answer is true for a
\* keyword that occurs in the title in another case.
C14_Witness ==
    /\ hist.evaluated # <<>>
    /\ hist.evaluated[3]
    /\ hist.evaluated[2].channels = {}
    /\ \A kw \in hist.evaluated[2].keywords :
          ~includes(hist.evaluated[1].videoTitle, kw)

\* C16: in mode 'always', a navigation from video to video made while audio
\* mode is enabled never calls disableAudioMode and leaves audioModeEnabled
\* true, and once its yt-navigate-finish and loadeddata have been delivered a
\* Set request has been made for the new video.
C16_RenavigationReasserts ==
    (currentModeType = "always" /\ navCount > 0 /\ hist.navEnabled) =>
        /\ audioModeEnabled
        /\ ~hist.navDisabled
        /\ pendingEvents = {} => hist.navSet

\* C16 witness: audio mode was enabled when the user navigated to another
\* video, both events of the navigation have been delivered and the Set
\* request has been made.
C16_Witness ==
    /\ currentModeType = "always"
    /\ navCount > 0
    /\ hist.navEnabled
    /\ url # "A"
    /\ pendingEvents = {}
    /\ hist.navSet
    /\ audioModeEnabled

\* C17: two toggle commands 50 ms apart, the first received while audio mode
\* is disabled, make exactly one transition from disabled to enabled, and
\* the enable side effects run at most once.
C17_DoubleToggleEnablesOnce ==
    toggles = 2 => (hist.enables = 1 /\ hist.effects <= 1)

\* C20: when the video id of the watch page has changed and none of the
\* events of the navigation is delivered, the polling check eventually
\* detects the change, resets the attempt flag of the player and calls
\* applyModeLogic.
C20_PollingReapplies == (navCount > 0) ~> hist.polled

\* C21: today's entries of statsLogs and activeLogs change only in a step
\* taken while audioModeEnabled is true, the step of the storage read
\* callback of a tick included.
C21_LogsOnlyWhileEnabled ==
    [][usageLogs' # usageLogs => audioModeEnabled]_vars

\* The badge text the documentation gives for a stored operating mode (an
\* unset mode counts as 'always').
BadgeOf(m) ==
    IF m = "off" THEN "" ELSE IF m = "filtered" THEN "FLT" ELSE "ON"

\* C22: once the install and startup reads and the debounced update have
\* run, the badge text is "ON" for mode always, "FLT" for filtered and
\* empty for off.
C22_BadgeShowsMode ==
    (Due("badgeGet") = {} /\ Due("badgeUpdate") = {}) =>
        badgeText = BadgeOf(storedMode)

\* C23: the stored preferredQuality changes only when the user chooses a
\* quality in the popup; no step of the engine writes it.
C23_PreferredQualityOnlyRead ==
    [][preferredQuality' # preferredQuality => SelectQuality]_vars

\* The coordinator's part of a state.
CoordView(s) ==
    <<s.qualityOperationInProgress, s.lastQualityOperationType,
      s.qualityOperationTimeout, s.currentQualityOperationId, s.timers>>

\* A step in which a caller requests the type that is in flight.
SameTypeRequest ==
    /\ requests' = requests + 1
    /\ qualityOperationInProgress
    /\ hist'.lastRequested = lastQualityOperationType

\* C24: a request of the type in flight is dropped: the step arms no timer
\* (no debounce timer is pending after it, and every pending callback was
\* pending before), leaves qualityOperationInProgress and
\* lastQualityOperationType as they were, and a second such request right
\* after it leaves the coordinator as the first left it.
C24_SameTypeDropped ==
    [][SameTypeRequest =>
          /\ qualityOperationInProgress' = qualityOperationInProgress
          /\ lastQualityOperationType' = lastQualityOperationType
          /\ ~qualityOperationTimeout'
          /\ \A t \in BagToSet(timers') :
                 /\ t.kind # "debounce"
                 /\ t \in BagToSet(timers)
                 /\ timers'[t] <= timers[t]
          /\ LET once == requestQualityOperation(Cur, lastQualityOperationType)
                 twice == requestQualityOperation(once, lastQualityOperationType)
             IN  /\ CoordView(once) = <<qualityOperationInProgress',
                                        lastQualityOperationType',
                                        qualityOperationTimeout',
                                        currentQualityOperationId', timers'>>
                 /\ CoordView(twice) = CoordView(once)]_vars

\* C24 witness: a request of the type in flight has been made and that
\* operation is still in flight.
C24_Witness ==
    /\ hist.dropped
    /\ qualityOperationInProgress
    /\ hist.lastRequested = lastQualityOperationType
    /\ Due("debounce") = {}

\* C25: the suppression styles a menu sequence applied are reset by the time
\* the sequence has ended: the styles are suppressed only while a delayed
\* step of a sequence is pending.
C25_StylesResetWithSequence == stylesHidden => ClickSteps # {}

\* C26: the cleanup callback of a started operation is carried by exactly
\* one pending callback while the operation is in flight (it is neither
\* duplicated nor lost), and every operation in flight reaches the step that
\* invokes it.
C26_CompletionExactlyOnce ==
    /\ [](BagCardinality(CleanupCarriers) <= 1)
    /\ [](qualityOperationInProgress => BagCardinality(CleanupCarriers) = 1)
    /\ [](qualityOperationInProgress => <>(CleanupCarriers = EmptyBag))

\* The part of C26 that says the callback is never invoked twice or dropped.
CompletionAtMostOnce ==
    /\ BagCardinality(CleanupCarriers) <= 1
    /\ qualityOperationInProgress <=> BagCardinality(CleanupCarriers) = 1

\* The label of the lowest tier the quality menu renders ("Auto" when it
\* renders no tier).
LowestRendered ==
    LET tiers == availableLevels \cap TierSet
    IN  IF tiers = {} THEN "Auto"
        ELSE qualityToText(CHOOSE q \in tiers :
                               \A r \in tiers : TierIndex(q) <= TierIndex(r))

\* The labels of the targets of a Restore operation that C27 names.
RestoreLabels == {"480p", "720p", "1080p", "1440p", "2160p"}

\* C27: when the select step does not find its target label in the menu, it
\* clicks the lowest rendered tier if the label is 144p and "Auto" if the
\* label is one of 480p, 720p, 1080p, 1440p and 2160p.
C27_SelectFallback ==
    (hist.selected # <<>> /\ ~hist.selected[2]) =>
        /\ hist.selected[1] = "144p" => hist.selected[3] = LowestRendered
        /\ hist.selected[1] \in RestoreLabels => hist.selected[3] = "Auto"

\* C28: while audio mode stays enabled after enableAudioMode ran with a video
\* element, the Set request is made or still to come from a pending step
\* (the continuation of enableAudioMode, which requests it at once when the
\* video plays, or the 3 s fallback), and it is eventually made.
C28_EnableRequestsSet ==
    /\ []((hist.setDue /\ audioModeEnabled) =>
              (Due("enableCont") # {} \/ Due("fallback") # {}))
    /\ []((hist.setDue /\ ~videoPlaying) =>
              (Due("enableCont") # {} \/ playListeners > 0))
    /\ (hist.setDue ~> (~hist.setDue \/ ~audioModeEnabled))

\* C28 witness: the video never started playing and the fallback has made
\* the Set request of an enable.
C28_Witness ==
    /\ audioModeEnabled
    /\ ~videoPlaying
    /\ hist.navSet
    /\ ~hist.setDue
    /\ Due("fallback") = {}
    /\ Due("enableCont") = {}

\* C29 as stated: on the first attempt for the video the verification of a
\* Set operation ends without the menu sequence exactly when it reads back
\* tiny, or small while the host does not list tiny.
C29_VerifyAcceptsEquivalent ==
    (hist.verified # <<>> /\ hist.verified[3]) =>
        (~hist.verified[4] <=>
            \/ hist.verified[1] = "tiny"
            \/ (hist.verified[1] = "small" /\ ~hist.verified[2]))

\* C29 as the code has it: the verification ends without the menu sequence
\* when it reads back tiny or small, whether or not the host lists tiny; any
\* other read-back escalates to the menu sequence on the first attempt for
\* the video and on no later one.
C29_VerifyAcceptsTinyOrSmall ==
    hist.verified # <<>> =>
        (hist.verified[4] <=>
            (hist.verified[3] /\ hist.verified[1] \notin {"tiny", "small"}))

\* C29 witness: a first verification has read back small on a host that
\* lists tiny and has ended without the menu sequence.
C29_Witness ==
    /\ hist.verified # <<>>
    /\ hist.verified[1] = "small"
    /\ hist.verified[2]
    /\ hist.verified[3]
    /\ ~hist.verified[4]
    /\ ~qualityOperationInProgress

\* C30: in mode 'filtered' an edit of the stored rules starts an evaluation;
\* after an edit that removes the rule matching the video while audio mode
\* is enabled the video is eventually evaluated against the edited rules and
\* audio mode disabled, and after one that adds a matching rule while audio
\* mode is disabled it is eventually evaluated and audio mode enabled.
C30_RuleEditReevaluated ==
    /\ [][RulesChanged => Due("filterEval")' # {}]_vars
    /\ (hist.ruleEdit = "removed") ~>
           (~audioModeEnabled /\ hist.evaluated # <<>> /\ hist.evaluated[2] = filterRules)
    /\ (hist.ruleEdit = "added") ~>
           (audioModeEnabled /\ hist.evaluated # <<>> /\ hist.evaluated[2] = filterRules)

\* C30 witness: the rule matching the video was removed while audio mode was
\* enabled, the video was evaluated against the edited rules, and audio mode
\* is disabled.
C30_Witness ==
    /\ hist.ruleEdit = "removed"
    /\ hist.evaluated # <<>>
    /\ hist.evaluated[2] = filterRules
    /\ currentModeType = "filtered"
    /\ ~audioModeEnabled
    /\ Due("filterEval") = {}

\* The steps in which a navigation-detection handler runs: the mutation
\* observer and its debounced callback, the yt-navigate-finish listener and
\* its delayed callback, the playlist check, and the loadeddata listener,
\* which compares the video id with the one last applied.
NavigationHandlerStep ==
    \/ MutationObserved
    \/ FireNavDebounce
    \/ YtNavigateFinish
    \/ FireNavFinish
    \/ PlaylistCheck
    \/ LoadedData

C32_InvalidContextHandled ==
    /\ ~hist.uncaught
    /\ (~contextValid /\ qualityOperationInProgress)
           => BagCardinality(CleanupCarriers) = 1

\* C33: no operation starts executing whose request was waiting, in the
\* debounce timer or in the re-queue delay, when the navigation handler
\* called cancelPendingQualityOperations.
C33_NoStaleStart == ~hist.staleStart

\* C34: while audio mode is disabled no Set request is made: no debounce
\* timer of a Set request is pending.
C34_NoSetWhileDisabled ==
    ~audioModeEnabled =>
        \A t \in BagToSet(timers) : ~(t.kind = "debounce" /\ t.type = "set")

\* C35: when the page is not a watch page and applyModeLogic has run since
\* the watch page was left, audio mode is disabled.
C35_DisabledOffWatchPage ==
    (~isOnVideoPage(Cur) /\ hist.applyCalls > 0) => ~audioModeEnabled

\* C36: today's stored entries of statsLogs and activeLogs never decrease.
C36_LogsNeverDecrease ==
    [][/\ usageLogs'.activeLogs >= usageLogs.activeLogs
       /\ usageLogs'.statsLogs >= usageLogs.statsLogs]_vars

\* A delayed step of a menu sequence that the step just taken has scheduled.
ScheduledStep(t) ==
    /\ t \in ClickSteps'
    /\ ~\E u \in ClickSteps : u.kind = t.kind /\ u.opId = t.opId

\* C37: the operation id never decreases; a step that starts a menu sequence
\* and a step that disables audio mode increase it, the sequence taking the
\* new id as its own; a delayed step clicks the quality item, clicks an
\* option or dispatches Escape (and so schedules the step after it) only
\* when the id of its sequence is the current one, and no step whose id has
\* been superseded selects an option.
C37_OperationIdToken ==
    /\ [][currentQualityOperationId' >= currentQualityOperationId]_vars
    /\ [][(audioModeEnabled /\ ~audioModeEnabled')
            => currentQualityOperationId' > currentQualityOperationId]_vars
    /\ [][\A t \in ClickSteps' :
             (t.kind = "clickMenu" /\ ScheduledStep(t))
                => /\ t.opId = currentQualityOperationId'
                   /\ currentQualityOperationId' > currentQualityOperationId]_vars
    /\ [][\A t \in ClickSteps' :
             (t.kind # "clickMenu" /\ ScheduledStep(t))
                => t.opId = currentQualityOperationId]_vars
    /\ []~hist.staleSelect

\* C37 witness: audio mode was disabled while a menu sequence was in
\* progress, the id has been increased twice, and a step of the superseded
\* sequence has taken its stale branch.
C37_Witness ==
    /\ hist.staleAbort
    /\ ~hist.staleSelect
    /\ currentQualityOperationId >= 2
    /\ ~audioModeEnabled

\* The listener that handles a mode change second, the other having run.
SecondDelivery ==
    \/ ("modeStorage" \notin pendingEvents /\ OnModeChangedMessage)
    \/ ("modeMessage" \notin pendingEvents /\ OnAudioModeTypeChanged)

====
